---- MODULE Spec2Model ----
(***************************************************************************)
(* Dental-radiograph screening API: the image admission pipeline           *)
(* (app/image_validator.py), the analysis endpoints that call it and the   *)
(* tooth lookup GET /fdi-info (app/router.py), the FDI tooth mapper and    *)
(* the aggregation of the detector's boxes (app/inference.py), the stored   *)
(* analyses and their history endpoints (app/router.py, app/models.py),    *)
(* the login (app/auth.py, app/email_validator.py), the model store        *)
(* (app/model_store.py) and the result cache (app/cache.py).               *)
(*                                                                         *)
(* Numbers: every ratio the code computes in floating point is compared    *)
(* here by exact integer cross-multiplication (count/total > 0.25 is       *)
(* 100*count > 25*total).  For the small rasters and the grid points used  *)
(* below the IEEE results of the code agree with the exact comparison.     *)
(***************************************************************************)
EXTENDS Integers, Sequences, FiniteSets, TLC

VARIABLES
    pc,              \* position of the request being served
    endpoint,        \* "analyze" | "analyze_public" | "analyze_url" | "none"
    filename,        \* UploadFile.filename, a sequence of characters
    file,            \* the uploaded / downloaded bytes
    content_type,    \* UploadFile.content_type
    url_status,      \* /analyze-url: HTTP status of requests.get(url) (0: no download)
    user,            \* result of the get_current_user dependency
    admission,       \* what validate_dental_xray returned for this request
    detector_input,  \* the image handed to model.predict by run_inference
    detector_outcome,\* "returned" | "raised": how model.predict ended ("none": not called)
    response,        \* the HTTP response of the request
    x_center_norm,   \* calculate_fdi: argument
    y_center_norm,   \* calculate_fdi: argument
    fdi_number,      \* calculate_fdi: result (0 = not computed yet)
    boxes,           \* run_inference: result.boxes, what the detector returned
    payload,         \* run_inference: the payload returned (<<>> = not returned yet)
    info_request,    \* GET /fdi-info/{fdi_number}: the path parameter
    info_response,   \* GET /fdi-info/{fdi_number}: the response (<<>> = none yet)
    handlers,        \* history: the requests being served, handler -> its locals
    analyses,        \* history: the rows of the table "analyses"
    next_row_id,     \* history: the next primary key of "analyses"
    model_instance,  \* model_store._model (0 = None, else the number of the instance)
    yolo_calls,      \* how many times YOLO(_model_path) was constructed
    callers,         \* model_store: the calls of get_model, caller -> its position
    login_request,   \* POST /auth/login: the form
    login_response,  \* POST /auth/login: the response (<<>> = none yet)
    cache,           \* ResultCache.cache: image hash -> entry
    clock,           \* time.time()
    cache_enabled,   \* ResultCache.enabled
    cache_reply,     \* what the last ResultCache.get returned
    last_set,        \* image hash -> time of the most recent effective set
    first_run,       \* repeated invocation: the outputs of the first one
    second_run       \* repeated invocation: the outputs of the second one

vars == <<pc, endpoint, filename, file, content_type, url_status, user, admission,
          detector_input, detector_outcome, response, x_center_norm, y_center_norm, fdi_number,
          boxes, payload, info_request, info_response,
          handlers, analyses, next_row_id, model_instance, yolo_calls, callers,
          login_request, login_response, cache, clock, cache_enabled, cache_reply,
          last_set, first_run, second_run>>

request_vars == <<pc, endpoint, filename, file, content_type, url_status, user, admission,
                  detector_input, detector_outcome, response>>

fdi_vars == <<x_center_norm, y_center_norm, fdi_number>>

inference_vars == <<boxes, payload>>

info_vars == <<info_request, info_response>>

history_vars == <<handlers, analyses, next_row_id>>

store_vars == <<model_instance, yolo_calls, callers>>

login_vars == <<login_request, login_response>>

cache_vars == <<cache, clock, cache_enabled, cache_reply, last_set>>

repeat_vars == <<first_run, second_run>>

\* the variables of the analysis endpoints, the tooth mapper, the aggregation
\* and the tooth lookup
early_vars == <<request_vars, fdi_vars, inference_vars, info_vars>>

\* the variables of the history, the model store, the login, the result cache
\* and the repeated invocation
later_vars == <<history_vars, store_vars, login_vars, cache_vars, repeat_vars>>

(***************************************************************************)
(* Generic helpers                                                         *)
(***************************************************************************)
RECURSIVE SumSeq(_)
SumSeq(s) == IF s = <<>> THEN 0 ELSE Head(s) + SumSeq(Tail(s))

Max3(a, b, c) == IF a >= b /\ a >= c THEN a ELSE IF b >= c THEN b ELSE c

Min3(a, b, c) == IF a <= b /\ a <= c THEN a ELSE IF b <= c THEN b ELSE c

Min2(a, b) == IF a <= b THEN a ELSE b

RECURSIVE Gcd(_, _)
Gcd(a, b) == IF b = 0 THEN a ELSE Gcd(b, a % b)

\* the rational <<a, b>>, b > 0, in lowest terms
Reduced(p) == <<p[1] \div Gcd(p[1], p[2]), p[2] \div Gcd(p[1], p[2])>>

\* a / b = c / d for the rationals <<a, b>> and <<c, d>>
RatEq(p, q) == Reduced(p) = Reduced(q)

(***************************************************************************)
(* Strings as character sequences: str.lower() and str.endswith()          *)
(***************************************************************************)
Lower(ch) ==
    CASE ch = "A" -> "a" [] ch = "B" -> "b" [] ch = "C" -> "c" [] ch = "D" -> "d"
      [] ch = "E" -> "e" [] ch = "F" -> "f" [] ch = "G" -> "g" [] ch = "H" -> "h"
      [] ch = "I" -> "i" [] ch = "J" -> "j" [] ch = "K" -> "k" [] ch = "L" -> "l"
      [] ch = "M" -> "m" [] ch = "N" -> "n" [] ch = "O" -> "o" [] ch = "P" -> "p"
      [] ch = "Q" -> "q" [] ch = "R" -> "r" [] ch = "S" -> "s" [] ch = "T" -> "t"
      [] ch = "U" -> "u" [] ch = "V" -> "v" [] ch = "W" -> "w" [] ch = "X" -> "x"
      [] ch = "Y" -> "y" [] ch = "Z" -> "z" [] OTHER -> ch

\* variant: the filename is compared as typed (no .lower())
StrLowerAsTyped(s) == s

StrLower(s) == [i \in 1..Len(s) |-> Lower(s[i])]

EndsWith(s, suffix) ==
    /\ Len(s) >= Len(suffix)
    /\ SubSeq(s, Len(s) - Len(suffix) + 1, Len(s)) = suffix

\* file_bytes[:4]
First4(bytes) == SubSeq(bytes, 1, Min2(4, Len(bytes)))

valid_extensions ==
    { <<".", "j", "p", "g">>, <<".", "j", "p", "e", "g">>, <<".", "p", "n", "g">>,
      <<".", "b", "m", "p">>, <<".", "t", "i", "f", "f">>, <<".", "t", "i", "f">> }

pdf_extension == <<".", "p", "d", "f">>

video_extensions ==
    { <<".", "m", "p", "4">>, <<".", "a", "v", "i">>,
      <<".", "m", "o", "v">>, <<".", "w", "m", "v">> }

pdf_magic == <<"%", "P", "D", "F">>

(***************************************************************************)
(* Rejection and acceptance messages (accents and symbols dropped)         *)
(***************************************************************************)
MsgPdfExtension ==
    "Archivo PDF detectado. Por favor exporta el PDF como imagen (JPG/PNG) antes de subirlo."

MsgVideo == "Se detecto un archivo de video. Sube una imagen de radiografia."

MsgUnsupported ==
    "Tipo de archivo no soportado. Solo se aceptan imagenes: JPG, JPEG, PNG, BMP, TIFF."

MsgDisguisedPdf ==
    "El archivo parece ser un PDF disfrazado de imagen. Exporta la radiografia como imagen real."

MsgCorrupt == "El archivo esta corrupto o no es una imagen valida."

MsgTooLarge(width, height) ==
    "La imagen es demasiado grande (" \o ToString(width) \o "x" \o ToString(height)
        \o "px). Maximo 10000x10000px."

MsgColor ==
    "La imagen contiene demasiados pixeles a color. Las radiografias dentales reales se presentan en escala de grises (tonos blanco, gris y negro, con saturacion muy baja)."

MsgLowContrast ==
    "La imagen tiene muy poco contraste para ser una radiografia dental util."

MsgDrawing ==
    "La imagen parece ser un dibujo en blanco y negro (comic o ilustracion), no una radiografia dental."

MsgIntensity ==
    "La imagen no presenta el patron de intensidades tipico de una radiografia dental."

MsgValidPanoramic == "Radiografia dental valida (formato compatible con panoramica)."

MsgValidOther ==
    "Radiografia dental valida. Nota: por su formato podria no ser panoramica (periapical/bitewing u otro tipo)."

MsgContentType == "Se requiere un archivo de imagen (JPG, PNG, etc.)"

MsgCredentials == "Credenciales invalidas"

(***************************************************************************)
(* Rasters.  A colour is an RGB triple; an image is width x height pixels  *)
(* in row-major order, pixel i (from 0) having colour                      *)
(* tile[(i mod Len(tile)) + 1].                                            *)
(***************************************************************************)
Black == <<0, 0, 0>>

White == <<255, 255, 255>>

Gray128 == <<128, 128, 128>>

Gray60 == <<60, 60, 60>>

Gray116 == <<116, 116, 116>>

Gray140 == <<140, 140, 140>>

Faint == <<128, 128, 120>>

Tint18 == <<128, 128, 104>>

Tint == <<128, 128, 110>>

Medium == <<128, 128, 96>>

Strong == <<128, 128, 80>>

Red == <<255, 0, 0>>

\* img.convert("HSV"), channel 1: PIL's rgb2hsv, S = trunc(255 * (max - min) / max)
Saturation(c) ==
    LET maxc == Max3(c[1], c[2], c[3])
        minc == Min3(c[1], c[2], c[3])
    IN  IF minc = maxc THEN 0 ELSE (255 * (maxc - minc)) \div maxc

\* img.convert("L"): PIL's ITU-R 601-2 luma, (R*19595 + G*38470 + B*7471 + 0x8000) >> 16
Luma(c) == (c[1] * 19595 + c[2] * 38470 + c[3] * 7471 + 32768) \div 65536

NumPixels(img) == img.width * img.height

\* how many pixels of the raster take their colour from slot j of the tile
SlotCount(img, j) ==
    Cardinality({i \in 0..(NumPixels(img) - 1) : i % Len(img.tile) = j - 1})

ColoursOf(img) == {img.tile[j] : j \in 1..Len(img.tile)}

\* (mask).sum() over the raster, mask the set of colours that satisfy the test
CountPixels(img, mask) ==
    SumSeq([j \in 1..Len(img.tile) |->
              IF img.tile[j] \in mask THEN SlotCount(img, j) ELSE 0])

\* sum of value[pixel] over the raster
SumPixels(img, value) ==
    SumSeq([j \in 1..Len(img.tile) |-> value[img.tile[j]] * SlotCount(img, j)])

SatOver35(c) == 100 * Saturation(c) > 35 * 255

SatOver20(c) == 100 * Saturation(c) > 20 * 255

IsDark(c) == Luma(c) < 50

IsBright(c) == Luma(c) > 200

IsMid(c) == Luma(c) >= 50 /\ Luma(c) <= 200

LumaSquared(c) == Luma(c) * Luma(c)

\* (s > 0.35).sum()
StrongColorPixels(img) == CountPixels(img, {c \in ColoursOf(img) : SatOver35(c)})

\* (s > 0.20).sum()
MediumColorPixels(img) == CountPixels(img, {c \in ColoursOf(img) : SatOver20(c)})

\* s.sum() * 255
SumSaturation(img) == SumPixels(img, [c \in ColoursOf(img) |-> Saturation(c)])

DarkPixels(img) == CountPixels(img, {c \in ColoursOf(img) : IsDark(c)})

BrightPixels(img) == CountPixels(img, {c \in ColoursOf(img) : IsBright(c)})

MidPixels(img) == CountPixels(img, {c \in ColoursOf(img) : IsMid(c)})

SumGray(img) == SumPixels(img, [c \in ColoursOf(img) |-> Luma(c)])

SumGraySquared(img) == SumPixels(img, [c \in ColoursOf(img) |-> LumaSquared(c)])

\* numerator of the grayscale variance over total^2: std = sqrt(VarNum / total^2)
VarNum(img) ==
    NumPixels(img) * SumGraySquared(img)
        - SumGray(img) * SumGray(img)

\* A score is sqrt(sqrt_of[1] / sqrt_of[2]) + plus[1] / plus[2]
Score(sqrt_of, plus) == [sqrt_of |-> sqrt_of, plus |-> plus]

ZeroScore == Score(<<0, 1>>, <<0, 1>>)

(***************************************************************************)
(* app/image_validator.py                                                  *)
(***************************************************************************)
HasValidExtension(file_lower) == \E ext \in valid_extensions : EndsWith(file_lower, ext)

ExtensionMessage(file_lower) ==
    IF EndsWith(file_lower, pdf_extension) THEN MsgPdfExtension
    ELSE IF \E ext \in video_extensions : EndsWith(file_lower, ext) THEN MsgVideo
    ELSE MsgUnsupported

SizeTooLarge(img) == img.width > 10000 \/ img.height > 10000

\* variant: the PDF signature is looked at before the extension
validate_image_file_magic_first(file_bytes, name) ==
    LET file_lower == StrLower(name)
    IN  IF First4(file_bytes.head) = pdf_magic
        THEN [ok |-> FALSE, msg |-> MsgDisguisedPdf, img |-> <<>>,
              gates |-> <<"pdf_magic">>]
        ELSE IF ~HasValidExtension(file_lower)
        THEN [ok |-> FALSE, msg |-> ExtensionMessage(file_lower), img |-> <<>>,
              gates |-> <<"pdf_magic", "extension">>]
        ELSE IF ~file_bytes.decodes
        THEN [ok |-> FALSE, msg |-> MsgCorrupt, img |-> <<>>,
              gates |-> <<"pdf_magic", "extension", "decode">>]
        ELSE IF SizeTooLarge(file_bytes.img)
        THEN [ok |-> FALSE,
              msg |-> MsgTooLarge(file_bytes.img.width, file_bytes.img.height),
              img |-> <<>>,
              gates |-> <<"pdf_magic", "extension", "decode", "size">>]
        ELSE [ok |-> TRUE, msg |-> "", img |-> <<file_bytes.img>>,
              gates |-> <<"pdf_magic", "extension", "decode", "size">>]

\* variant: no look at the PDF signature; the bytes go straight to the decoder
validate_image_file_no_magic(file_bytes, name) ==
    LET file_lower == StrLower(name)
    IN  IF ~HasValidExtension(file_lower)
        THEN [ok |-> FALSE, msg |-> ExtensionMessage(file_lower), img |-> <<>>,
              gates |-> <<"extension">>]
        ELSE IF ~file_bytes.decodes
        THEN [ok |-> FALSE, msg |-> MsgCorrupt, img |-> <<>>,
              gates |-> <<"extension", "pdf_magic", "decode">>]
        ELSE IF SizeTooLarge(file_bytes.img)
        THEN [ok |-> FALSE,
              msg |-> MsgTooLarge(file_bytes.img.width, file_bytes.img.height),
              img |-> <<>>,
              gates |-> <<"extension", "pdf_magic", "decode", "size">>]
        ELSE [ok |-> TRUE, msg |-> "", img |-> <<file_bytes.img>>,
              gates |-> <<"extension", "pdf_magic", "decode", "size">>]

\* gates: the checks evaluated, in order (instrumentation of the control flow)
validate_image_file(file_bytes, name) ==
    LET file_lower == StrLower(name)
    IN  IF ~HasValidExtension(file_lower)
        THEN [ok |-> FALSE, msg |-> ExtensionMessage(file_lower), img |-> <<>>,
              gates |-> <<"extension">>]
        ELSE IF First4(file_bytes.head) = pdf_magic
        THEN [ok |-> FALSE, msg |-> MsgDisguisedPdf, img |-> <<>>,
              gates |-> <<"extension", "pdf_magic">>]
        ELSE IF ~file_bytes.decodes
        THEN [ok |-> FALSE, msg |-> MsgCorrupt, img |-> <<>>,
              gates |-> <<"extension", "pdf_magic", "decode">>]
        ELSE IF SizeTooLarge(file_bytes.img)
        THEN [ok |-> FALSE,
              msg |-> MsgTooLarge(file_bytes.img.width, file_bytes.img.height),
              img |-> <<>>,
              gates |-> <<"extension", "pdf_magic", "decode", "size">>]
        ELSE [ok |-> TRUE, msg |-> "", img |-> <<file_bytes.img>>,
              gates |-> <<"extension", "pdf_magic", "decode", "size">>]

\* variant: the thresholds 0.10 / 0.10 / (0.05 and 0.40) / 0.45
SaturationRejectsTighter(img) ==
    LET total_pixels == NumPixels(img)
        strong_color_pixels == StrongColorPixels(img)
        medium_color_pixels == MediumColorPixels(img)
        sum_saturation == SumSaturation(img)
    IN  \/ 100 * sum_saturation > 10 * 255 * total_pixels
        \/ 100 * strong_color_pixels > 10 * total_pixels
        \/ /\ 100 * sum_saturation > 5 * 255 * total_pixels
           /\ 100 * medium_color_pixels > 40 * total_pixels
        \/ 100 * medium_color_pixels > 45 * total_pixels

\* variant: without the criterion on the mean saturation
SaturationRejectsNoMean(img) ==
    LET total_pixels == NumPixels(img)
        strong_color_pixels == StrongColorPixels(img)
        medium_color_pixels == MediumColorPixels(img)
        sum_saturation == SumSaturation(img)
    IN  \/ 100 * strong_color_pixels > 25 * total_pixels
        \/ 100 * medium_color_pixels > 60 * total_pixels

SaturationRejects(img) ==
    LET total_pixels == NumPixels(img)
        strong_color_pixels == StrongColorPixels(img)
        medium_color_pixels == MediumColorPixels(img)
        sum_saturation == SumSaturation(img)
    IN  \/ 100 * strong_color_pixels > 25 * total_pixels
        \/ 100 * medium_color_pixels > 60 * total_pixels
        \/ 100 * sum_saturation > 18 * 255 * total_pixels

\* variant: the score is the share of strongly coloured pixels, in percent
SaturationScoreStrongShare(img) ==
    Score(<<0, 1>>, <<100 * StrongColorPixels(img), NumPixels(img)>>)

\* mean_saturation * 100.0
SaturationScore(img) ==
    Score(<<0, 1>>, <<100 * SumSaturation(img), 255 * NumPixels(img)>>)

\* variant: std <= 12
LowContrastAtOrBelow(img) == VarNum(img) <= 12 * 12 * NumPixels(img) * NumPixels(img)

\* std < 12
LowContrast(img) == VarNum(img) < 12 * 12 * NumPixels(img) * NumPixels(img)

\* variant: mid_ratio <= 0.25
LooksLikeDrawingInclusive(img) ==
    LET total == NumPixels(img)
    IN  /\ 100 * MidPixels(img) <= 25 * total
        /\ \/ 100 * DarkPixels(img) > 30 * total
           \/ 100 * BrightPixels(img) > 30 * total

LooksLikeDrawing(img) ==
    LET total == NumPixels(img)
    IN  /\ 100 * MidPixels(img) < 25 * total
        /\ \/ 100 * DarkPixels(img) > 30 * total
           \/ 100 * BrightPixels(img) > 30 * total

\* variant: dark_ratio <= 0.01 or bright_ratio <= 0.002
LacksIntensityPatternInclusive(img) ==
    LET total == NumPixels(img)
    IN  \/ 100 * DarkPixels(img) <= 1 * total
        \/ 1000 * BrightPixels(img) <= 2 * total

LacksIntensityPattern(img) ==
    LET total == NumPixels(img)
    IN  \/ 100 * DarkPixels(img) < 1 * total
        \/ 1000 * BrightPixels(img) < 2 * total

validate_is_xray(img) ==
    LET total == NumPixels(img)
        std == <<VarNum(img), total * total>>
        mid == MidPixels(img)
    IN  IF SaturationRejects(img)
        THEN [ok |-> FALSE, msg |-> MsgColor, score |-> SaturationScore(img),
              gates |-> <<"saturation">>]
        ELSE IF LowContrast(img)
        THEN [ok |-> FALSE, msg |-> MsgLowContrast, score |-> Score(std, <<0, 1>>),
              gates |-> <<"saturation", "contrast">>]
        ELSE IF LooksLikeDrawing(img)
        THEN [ok |-> FALSE, msg |-> MsgDrawing,
              score |-> Score(<<0, 1>>, <<100 * mid, total>>),
              gates |-> <<"saturation", "contrast", "drawing">>]
        ELSE IF LacksIntensityPattern(img)
        THEN [ok |-> FALSE, msg |-> MsgIntensity,
              score |-> Score(<<0, 1>>,
                  <<100 * (DarkPixels(img) + BrightPixels(img)), total>>),
              gates |-> <<"saturation", "contrast", "drawing", "intensity">>]
        ELSE [ok |-> TRUE, msg |-> "", score |-> Score(std, <<50 * mid, total>>),
              gates |-> <<"saturation", "contrast", "drawing", "intensity">>]

\* f"{aspect_ratio:.2f}": the ratio in hundredths, rounded to nearest
RatioHundredths(img) == (200 * img.width + img.height) \div (2 * img.height)

IsPanoramicRatio(img) ==
    10 * img.width >= 14 * img.height /\ img.width <= 4 * img.height

soft_check_panoramic(img) ==
    IF IsPanoramicRatio(img)
    THEN [ok |-> TRUE, msg |-> "", ratio |-> <<img.width, img.height>>]
    ELSE [ok |-> FALSE,
          msg |-> "Relacion ancho/alto " \o ToString(RatioHundredths(img))
                    \o "/100:1 (podria no ser panoramica).",
          ratio |-> <<img.width, img.height>>]

InitialDetails ==
    [is_valid_image |-> FALSE, is_xray |-> FALSE, is_panoramic |-> FALSE,
     xray_confidence |-> ZeroScore, panoramic_confidence |-> <<0, 1>>]

\* variant: the panoramic check is a hard gate
ValidateDecodedPanoramicGate(pil_img, file_gates) ==
    LET xray == validate_is_xray(pil_img)
        pano == soft_check_panoramic(pil_img)
        seen == [InitialDetails EXCEPT !.is_valid_image = TRUE,
                                       !.xray_confidence = xray.score]
    IN  IF ~xray.ok
        THEN [is_valid |-> FALSE, msg |-> xray.msg, details |-> seen,
              gates |-> file_gates \o xray.gates]
        ELSE [is_valid |-> pano.ok,
              msg |-> IF pano.ok THEN MsgValidPanoramic ELSE pano.msg,
              details |-> [seen EXCEPT !.is_xray = TRUE,
                                       !.is_panoramic = pano.ok,
                                       !.panoramic_confidence = pano.ratio],
              gates |-> file_gates \o xray.gates \o <<"panoramic">>]

\* what the function does once validate_image_file has accepted pil_img
ValidateDecoded(pil_img, file_gates) ==
    LET xray == validate_is_xray(pil_img)
        pano == soft_check_panoramic(pil_img)
        seen == [InitialDetails EXCEPT !.is_valid_image = TRUE,
                                       !.xray_confidence = xray.score]
    IN  IF ~xray.ok
        THEN [is_valid |-> FALSE, msg |-> xray.msg, details |-> seen,
              gates |-> file_gates \o xray.gates]
        ELSE [is_valid |-> TRUE,
              msg |-> IF pano.ok THEN MsgValidPanoramic ELSE MsgValidOther,
              details |-> [seen EXCEPT !.is_xray = TRUE,
                                       !.is_panoramic = pano.ok,
                                       !.panoramic_confidence = pano.ratio],
              gates |-> file_gates \o xray.gates \o <<"panoramic">>]

validate_dental_xray(file_bytes, name) ==
    LET checked == validate_image_file(file_bytes, name)
    IN  IF ~checked.ok \/ checked.img = <<>>
        THEN [is_valid |-> FALSE, msg |-> checked.msg, details |-> InitialDetails,
              gates |-> checked.gates]
        ELSE ValidateDecoded(checked.img[1], checked.gates)

(***************************************************************************)
(* Inputs of the requests                                                  *)
(***************************************************************************)
Filenames ==
    { <<"x", ".", "j", "p", "g">>, <<"x", ".", "j", "p", "e", "g">>,
      <<"x", ".", "p", "n", "g">>, <<"X", ".", "P", "n", "G">>,
      <<"x", ".", "b", "m", "p">>, <<"x", ".", "t", "i", "f", "f">>,
      <<"x", ".", "t", "i", "f">>,
      <<"x", ".", "p", "d", "f">>, <<"X", ".", "P", "D", "F">>,
      <<"x", ".", "p", "n", "g", ".", "p", "d", "f">>,
      <<"x", ".", "m", "p", "4">>, <<"x", ".", "A", "v", "i">>,
      <<"x", ".", "m", "o", "v">>, <<"x", ".", "w", "m", "v">>,
      <<"x", ".", "t", "x", "t">>, <<"x", ".", "g", "i", "f">>,
      <<"x", ".", "p", "d", "f", ".", "e", "x", "e">>,
      <<"x", "p", "n", "g">>, <<"x">> }

Tiles ==
    { <<Black, White, Gray128, Gray60>>,
      <<Gray128>>,
      <<Black, White>>,
      <<Gray60, White, Gray128>>,
      <<Black, White, Tint, Tint>>,
      <<Black, White, Medium, Medium>>,
      <<Strong, Black, White, Gray128, Gray60, Gray128>>,
      <<Strong, Strong, Black, White, Gray128, Gray60>>,
      <<Medium, Medium, Medium, Medium, Black, White>>,
      <<Red, Black, White, Gray128>>,
      <<Red>>,
      <<Gray116, Gray140>>,
      <<Black, White, Black, Gray128>>,
      <<Faint>>,
      <<Tint>>,
      <<Tint18>>,
      <<Medium>>,
      <<Strong>> }

\* one black and two white pixels in a hundred, the rest mid gray
SparseTile == [j \in 1..100 |-> IF j = 1 THEN Black ELSE IF j <= 3 THEN White ELSE Gray128]

SparseSize == <<20, 5>>

Sizes ==
    { <<6, 2>>, <<7, 5>>, <<11, 8>>, <<8, 2>>, <<17, 4>>, <<2, 6>> }

OversizedSizes == { <<10001, 1>>, <<1, 10001>> }

Image(size, tile) == [width |-> size[1], height |-> size[2], tile |-> tile]

Images ==
    {Image(size, tile) : size \in Sizes, tile \in Tiles}
        \cup {Image(size, <<Black, White, Gray128, Gray60>>) : size \in OversizedSizes}
        \cup {Image(SparseSize, SparseTile)}

NoImage == Image(<<0, 0>>, <<>>)

png_magic == <<"x89", "P", "N", "G", "x0D", "x0A", "x1A", "x0A">>

PdfFile ==
    [head |-> <<"%", "P", "D", "F", "-", "1", ".", "4">>, decodes |-> FALSE, img |-> NoImage]

GarbageFile ==
    [head |-> <<"c", "o", "n", "t", "e", "n", "i", "d", "o">>, decodes |-> FALSE,
     img |-> NoImage]

EmptyFile == [head |-> <<>>, decodes |-> FALSE, img |-> NoImage]

ImageFile(img) == [head |-> png_magic, decodes |-> TRUE, img |-> img]

Files == {PdfFile, GarbageFile, EmptyFile} \cup {ImageFile(img) : img \in Images}

ContentTypes == {"image/png", "application/pdf", "None"}

IsImageContentType(ct) == ct = "image/png"

Users == {"none", "ana"}

NoName == <<>>

(***************************************************************************)
(* app/image_io.py                                                         *)
(***************************************************************************)
\* Image.open(...).convert("RGB"): <<image>>, or <<>> when PIL raises
pil_from_upload(file_bytes) == IF file_bytes.decodes THEN <<file_bytes.img>> ELSE <<>>

(***************************************************************************)
(* The requests: app/router.py                                             *)
(***************************************************************************)
Response(status, detail) == [status |-> status, detail |-> detail]

IdleRequest ==
    /\ pc = "idle"
    /\ endpoint = "none"
    /\ filename = NoName
    /\ file = EmptyFile
    /\ content_type = "None"
    /\ url_status = 0
    /\ user = "none"
    /\ admission = <<>>
    /\ detector_input = <<>>
    /\ detector_outcome = "none"
    /\ response = <<>>

NoHistory ==
    /\ handlers = <<>>
    /\ analyses = {}
    /\ next_row_id = 1

NoStore ==
    /\ model_instance = 0
    /\ yolo_calls = 0
    /\ callers = <<>>

NoLogin ==
    /\ login_request = <<>>
    /\ login_response = <<>>

NoCache ==
    /\ cache = <<>>
    /\ clock = 0
    /\ cache_enabled = FALSE
    /\ cache_reply = <<>>
    /\ last_set = <<>>

NoRepeat ==
    /\ first_run = <<>>
    /\ second_run = <<>>

\* no GET /fdi-info request
NoInfoRequest ==
    /\ info_request = 0
    /\ info_response = <<>>

\* run_inference has not been called
NoInference ==
    /\ boxes = <<>>
    /\ payload = <<>>

Init ==
    /\ IdleRequest
    /\ x_center_norm = 0
    /\ y_center_norm = 0
    /\ fdi_number = 0
    /\ NoInference
    /\ NoInfoRequest
    /\ NoHistory /\ NoStore /\ NoLogin /\ NoCache /\ NoRepeat

\* POST /analyze arrives
SubmitAnalyze ==
    /\ pc = "idle"
    /\ \E name \in Filenames, f \in Files, ct \in ContentTypes, u \in Users :
         /\ filename' = name
         /\ file' = f
         /\ content_type' = ct
         /\ user' = u
    /\ endpoint' = "analyze"
    /\ pc' = "admission"
    /\ UNCHANGED <<url_status, admission, detector_input, detector_outcome, response>>
    /\ UNCHANGED fdi_vars
    /\ UNCHANGED inference_vars
    /\ UNCHANGED info_vars
    /\ UNCHANGED later_vars

\* POST /analyze-public arrives
SubmitAnalyzePublic ==
    /\ pc = "idle"
    /\ \E name \in Filenames, f \in Files, ct \in ContentTypes :
         /\ filename' = name
         /\ file' = f
         /\ content_type' = ct
    /\ endpoint' = "analyze_public"
    /\ pc' = "admission"
    /\ UNCHANGED <<url_status, user, admission, detector_input, detector_outcome, response>>
    /\ UNCHANGED fdi_vars
    /\ UNCHANGED inference_vars
    /\ UNCHANGED info_vars
    /\ UNCHANGED later_vars

\* POST /analyze-url arrives; file is what requests.get(url) will download
SubmitAnalyzeUrl ==
    /\ pc = "idle"
    /\ \E f \in Files, status \in {200, 404} :
         /\ file' = f
         /\ url_status' = status
    /\ endpoint' = "analyze_url"
    /\ pc' = "admission"
    /\ UNCHANGED <<filename, content_type, user, admission, detector_input, detector_outcome, response>>
    /\ UNCHANGED fdi_vars
    /\ UNCHANGED inference_vars
    /\ UNCHANGED info_vars
    /\ UNCHANGED later_vars

\* variant: the rejection is logged but no HTTPException is raised
UploadAdmissionNoRaise(needs_user) ==
    IF needs_user /\ user = "none"
    THEN /\ response' = <<Response(401, MsgCredentials)>>
         /\ pc' = "done"
         /\ UNCHANGED admission
    ELSE IF ~IsImageContentType(content_type)
    THEN /\ response' = <<Response(400, MsgContentType)>>
         /\ pc' = "done"
         /\ UNCHANGED admission
    ELSE /\ admission' = <<validate_dental_xray(file, filename)>>
         /\ pc' = "detect"
         /\ UNCHANGED response

\* variant: the rejection is raised as a plain exception, a server error
UploadAdmissionServerError(needs_user) ==
    IF needs_user /\ user = "none"
    THEN /\ response' = <<Response(401, MsgCredentials)>>
         /\ pc' = "done"
         /\ UNCHANGED admission
    ELSE IF ~IsImageContentType(content_type)
    THEN /\ response' = <<Response(400, MsgContentType)>>
         /\ pc' = "done"
         /\ UNCHANGED admission
    ELSE LET result == validate_dental_xray(file, filename)
         IN  /\ admission' = <<result>>
             /\ IF ~result.is_valid
                THEN /\ response' = <<Response(500, "Internal Server Error")>>
                     /\ pc' = "done"
                ELSE /\ pc' = "detect"
                     /\ UNCHANGED response

\* the upload handlers up to and including validate_dental_xray
UploadAdmission(needs_user) ==
    IF needs_user /\ user = "none"
    THEN /\ response' = <<Response(401, MsgCredentials)>>
         /\ pc' = "done"
         /\ UNCHANGED admission
    ELSE IF ~IsImageContentType(content_type)
    THEN /\ response' = <<Response(400, MsgContentType)>>
         /\ pc' = "done"
         /\ UNCHANGED admission
    ELSE LET result == validate_dental_xray(file, filename)
         IN  /\ admission' = <<result>>
             /\ IF ~result.is_valid
                THEN /\ response' = <<Response(400, result.msg)>>
                     /\ pc' = "done"
                ELSE /\ pc' = "detect"
                     /\ UNCHANGED response

\* model.predict returns its results or raises
DetectorOutcomes == {"returned", "raised"}

\* run_inference as far as the detector call: model.predict(source=image, ...)
run_inference(image, outcome) ==
    /\ detector_input' = <<image>>
    /\ detector_outcome' = outcome

\* the response of a handler whose call of run_inference ended with outcome:
\* the payload, or the unhandled exception as a server error
DetectResponse(outcome) ==
    IF outcome = "returned"
    THEN Response(200, "")
    ELSE Response(500, "Internal Server Error")

\* the handlers from pil_from_upload on
UploadDetect ==
    LET img == pil_from_upload(file)
    IN  IF img = <<>>
        THEN /\ response' = <<Response(500, "Internal Server Error")>>
             /\ UNCHANGED <<detector_input, detector_outcome>>
        ELSE \E outcome \in DetectorOutcomes :
                /\ run_inference(img[1], outcome)
                /\ response' = <<DetectResponse(outcome)>>

AnalyzeAdmission ==
    /\ pc = "admission"
    /\ endpoint = "analyze"
    /\ UploadAdmission(TRUE)
    /\ UNCHANGED <<endpoint, filename, file, content_type, url_status, user, detector_input,
                   detector_outcome>>
    /\ UNCHANGED fdi_vars
    /\ UNCHANGED inference_vars
    /\ UNCHANGED info_vars
    /\ UNCHANGED later_vars

AnalyzeDetect ==
    /\ pc = "detect"
    /\ endpoint = "analyze"
    /\ UploadDetect
    /\ pc' = "done"
    /\ UNCHANGED <<endpoint, filename, file, content_type, url_status, user, admission>>
    /\ UNCHANGED fdi_vars
    /\ UNCHANGED inference_vars
    /\ UNCHANGED info_vars
    /\ UNCHANGED later_vars

AnalyzePublicAdmission ==
    /\ pc = "admission"
    /\ endpoint = "analyze_public"
    /\ UploadAdmission(FALSE)
    /\ UNCHANGED <<endpoint, filename, file, content_type, url_status, user, detector_input,
                   detector_outcome>>
    /\ UNCHANGED fdi_vars
    /\ UNCHANGED inference_vars
    /\ UNCHANGED info_vars
    /\ UNCHANGED later_vars

AnalyzePublicDetect ==
    /\ pc = "detect"
    /\ endpoint = "analyze_public"
    /\ UploadDetect
    /\ pc' = "done"
    /\ UNCHANGED <<endpoint, filename, file, content_type, url_status, user, admission>>
    /\ UNCHANGED fdi_vars
    /\ UNCHANGED inference_vars
    /\ UNCHANGED info_vars
    /\ UNCHANGED later_vars

\* analyze_url: pil_from_url (requests.get, raise_for_status, pil_from_upload),
\* then run_inference; no call of validate_dental_xray
AnalyzeUrl ==
    /\ pc = "admission"
    /\ endpoint = "analyze_url"
    /\ LET img == pil_from_upload(file)
       IN  IF url_status # 200 \/ img = <<>>
           THEN /\ response' = <<Response(500, "Internal Server Error")>>
                /\ UNCHANGED <<detector_input, detector_outcome>>
           ELSE \E outcome \in DetectorOutcomes :
                   /\ run_inference(img[1], outcome)
                   /\ response' = <<DetectResponse(outcome)>>
    /\ pc' = "done"
    /\ UNCHANGED <<endpoint, filename, file, content_type, url_status, user, admission>>
    /\ UNCHANGED fdi_vars
    /\ UNCHANGED inference_vars
    /\ UNCHANGED info_vars
    /\ UNCHANGED later_vars

\* the response is sent; the worker takes the next request
Reply ==
    /\ pc = "done"
    /\ pc' = "idle"
    /\ endpoint' = "none"
    /\ filename' = NoName
    /\ file' = EmptyFile
    /\ content_type' = "None"
    /\ url_status' = 0
    /\ user' = "none"
    /\ admission' = <<>>
    /\ detector_input' = <<>>
    /\ detector_outcome' = "none"
    /\ response' = <<>>
    /\ UNCHANGED fdi_vars
    /\ UNCHANGED inference_vars
    /\ UNCHANGED info_vars
    /\ UNCHANGED later_vars

Next ==
    \/ SubmitAnalyze
    \/ SubmitAnalyzePublic
    \/ SubmitAnalyzeUrl
    \/ AnalyzeAdmission
    \/ AnalyzeDetect
    \/ AnalyzePublicAdmission
    \/ AnalyzePublicDetect
    \/ AnalyzeUrl
    \/ Reply

Spec == Init /\ [][Next]_vars

(***************************************************************************)
(* app/inference.py: calculate_fdi.  A coordinate is a grid point          *)
(* k / Grid, k in 0..Grid, held as the integer k.                          *)
(***************************************************************************)
HalfGrid == 16

Grid == 2 * HalfGrid

Coordinates == 0..Grid

\* variant: x <= 0.5
BelowOrAtHalf(k) == 2 * k <= Grid

\* x < 0.5
BelowHalf(k) == 2 * k < Grid

Quadrant(xk, yk) ==
    IF BelowHalf(yk)
    THEN IF BelowHalf(xk) THEN 1 ELSE 2
    ELSE IF BelowHalf(xk) THEN 4 ELSE 3

\* variant: int(x * 8), the slot within the whole width
SlotIndexWholeWidth(xk) == (8 * xk) \div Grid

\* int(((x % 0.5) / 0.5) * 8)
SlotIndex(xk) == (8 * (xk % HalfGrid)) \div HalfGrid

\* variant: the position counted from 0
ToothPositionFromZero(xk) == Min2(SlotIndex(xk), 8)

ToothPosition(xk) == Min2(SlotIndex(xk) + 1, 8)

calculate_fdi(xk, yk) == Quadrant(xk, yk) * 10 + ToothPosition(xk)

InitFdi ==
    /\ IdleRequest
    /\ x_center_norm \in Coordinates
    /\ y_center_norm \in Coordinates
    /\ fdi_number = 0
    /\ NoInference
    /\ NoInfoRequest
    /\ NoHistory /\ NoStore /\ NoLogin /\ NoCache /\ NoRepeat

CalculateFdi ==
    /\ fdi_number = 0
    /\ fdi_number' = calculate_fdi(x_center_norm, y_center_norm)
    /\ UNCHANGED <<x_center_norm, y_center_norm>>
    /\ UNCHANGED request_vars
    /\ UNCHANGED inference_vars
    /\ UNCHANGED info_vars
    /\ UNCHANGED later_vars

NextFdi == CalculateFdi

SpecFdi == InitFdi /\ [][NextFdi]_vars

(***************************************************************************)
(* app/inference.py: run_inference after the detector call.  A box is      *)
(* [xyxy, conf, cls]; the image is HalfGrid x HalfGrid pixels, so the      *)
(* normalised centre ((x1 + x2) / 2) / img_width is the grid point         *)
(* (x1 + x2) / Grid.  Confidences are whole percents.                      *)
(***************************************************************************)
MaxBoxes == 3

CLASS_NAMES == (0 :> "Caries") @@ (1 :> "Diente_Retenido") @@ (2 :> "Perdida_Osea")

ClassIds == DOMAIN CLASS_NAMES

ClassNames == {CLASS_NAMES[cid] : cid \in ClassIds}

ClassId(cname) == CHOOSE cid \in ClassIds : CLASS_NAMES[cid] = cname

\* box.xyxy of the boxes the detector may return: two boxes with the same
\* centre in the upper left quadrant and one in the upper right quadrant
BoxShapes == {<<0, 0, 4, 4>>, <<1, 1, 3, 3>>, <<10, 2, 14, 6>>}

Confidences == {50, 90}

Boxes == [xyxy : BoxShapes, conf : Confidences, cls : ClassIds]

BoxLists == UNION {[1..n -> Boxes] : n \in 0..MaxBoxes}

\* calculate_fdi(x_center / img_width, y_center / img_height)
BoxFdi(box) == calculate_fdi(box.xyxy[1] + box.xyxy[3], box.xyxy[2] + box.xyxy[4])

\* the dict appended to detections
Detection(box) ==
    [class_id |-> box.cls,
     class_name |-> CLASS_NAMES[box.cls],
     confidence |-> box.conf,
     bbox |-> box.xyxy,
     fdi |-> BoxFdi(box),
     tooth_fdi |-> BoxFdi(box)]

detections(bs) == [i \in 1..Len(bs) |-> Detection(bs[i])]

\* the teeth a class was detected on, duplicates included
ClassTeeth(bs, cid) ==
    LET own == SelectSeq(bs, LAMBDA box : box.cls = cid)
    IN  [i \in 1..Len(own) |-> BoxFdi(own[i])]

\* variant: a class counts the distinct teeth it was detected on
class_counts_distinct_teeth(bs) ==
    [cid \in ClassIds |->
        Cardinality({ClassTeeth(bs, cid)[i] : i \in 1..Len(ClassTeeth(bs, cid))})]

\* class_counts[cid] += 1 for every box
class_counts(bs) ==
    [cid \in ClassIds |-> Cardinality({i \in 1..Len(bs) : bs[i].cls = cid})]

\* class_conf[cid].append(conf) for every box
class_conf(bs) ==
    [cid \in ClassIds |->
        LET own == SelectSeq(bs, LAMBDA box : box.cls = cid)
        IN  [i \in 1..Len(own) |-> own[i].conf]]

EmptyDict == [key \in {} |-> 0]

EmptyTeeth == [cname \in ClassNames |-> <<>>]

InList(list, v) == \E i \in 1..Len(list) : list[i] = v

\* variant: the tooth is appended without the membership test
AppendToothAlways(map, cname, tooth) == [map EXCEPT ![cname] = Append(@, tooth)]

\* if fdi_number not in teeth_fdi_map[cname]: teeth_fdi_map[cname].append(fdi_number)
AppendTooth(map, cname, tooth) ==
    IF InList(map[cname], tooth)
    THEN map
    ELSE [map EXCEPT ![cname] = Append(@, tooth)]

RECURSIVE teeth_fdi_map(_)
teeth_fdi_map(bs) ==
    IF bs = <<>>
    THEN EmptyTeeth
    ELSE LET box == bs[Len(bs)]
         IN  AppendTooth(teeth_fdi_map(SubSeq(bs, 1, Len(bs) - 1)),
                         CLASS_NAMES[box.cls], BoxFdi(box))

PresentNames(bs) == {CLASS_NAMES[cid] : cid \in {c \in ClassIds : class_counts(bs)[c] > 0}}

per_class(bs) == [cname \in PresentNames(bs) |-> class_counts(bs)[ClassId(cname)]]

SeqMin(s) == CHOOSE v \in {s[i] : i \in 1..Len(s)} : \A i \in 1..Len(s) : v <= s[i]

SeqMax(s) == CHOOSE v \in {s[i] : i \in 1..Len(s)} : \A i \in 1..Len(s) : v >= s[i]

\* conf_avg is the rational <<sum, count>>
stats(bs) ==
    [cname \in PresentNames(bs) |->
        LET arr == class_conf(bs)[ClassId(cname)]
        IN  [count |-> class_counts(bs)[ClassId(cname)],
             conf_avg |-> <<SumSeq(arr), Len(arr)>>,
             conf_min |-> SeqMin(arr),
             conf_max |-> SeqMax(arr)]]

\* sorted(list)
InsertSorted(list, v) ==
    LET k == Cardinality({i \in 1..Len(list) : list[i] <= v})
    IN  SubSeq(list, 1, k) \o <<v>> \o SubSeq(list, k + 1, Len(list))

RECURSIVE Sorted(_)
Sorted(list) == IF list = <<>> THEN <<>> ELSE InsertSorted(Sorted(Tail(list)), Head(list))

\* a line of the report: its fixed text and the values formatted into it
Line(text, args) == [text |-> text, args |-> args]

\* f"{x:.1%}" of the mean of whole percents: tenths of a percent
MeanTenths(arr) == ((20 * SumSeq(arr)) + Len(arr)) \div (2 * Len(arr))

TextNoDetections == "No se detectaron problemas dentales en esta imagen."

TextNoFindings == "Sin hallazgos significativos"

TextInterpretation ==
    (0 :> "Caries detectadas en dientes: ")
    @@ (1 :> "Dientes retenidos: ")
    @@ (2 :> "Perdida osea en dientes: ")

\* the two breakdown lines of a class, if it has detections
BreakdownLines(bs, cid) ==
    IF class_counts(bs)[cid] > 0
    THEN <<Line(CLASS_NAMES[cid],
                <<class_counts(bs)[cid], MeanTenths(class_conf(bs)[cid])>>),
           Line("  Dientes: ", Sorted(teeth_fdi_map(bs)[CLASS_NAMES[cid]]))>>
    ELSE <<>>

\* variant: the interpretation line lists the teeth as they were found
InterpretationLineAsFound(bs, cid) ==
    IF class_counts(bs)[cid] > 0
    THEN <<Line(TextInterpretation[cid], teeth_fdi_map(bs)[CLASS_NAMES[cid]])>>
    ELSE <<>>

\* the interpretation line of a class, if it has detections
InterpretationLine(bs, cid) ==
    IF class_counts(bs)[cid] > 0
    THEN <<Line(TextInterpretation[cid], Sorted(teeth_fdi_map(bs)[CLASS_NAMES[cid]]))>>
    ELSE <<>>

\* total = sum(class_counts.values())
total(bs) == class_counts(bs)[0] + class_counts(bs)[1] + class_counts(bs)[2]

report_lines(bs) ==
    <<Line("ANALISIS DE RADIOGRAFIA DENTAL", <<>>), Line("=", <<50>>), Line("", <<>>)>>
    \o <<Line("Total de detecciones: ", <<total(bs)>>)>>
    \o BreakdownLines(bs, 0) \o BreakdownLines(bs, 1) \o BreakdownLines(bs, 2)
    \o <<Line("", <<>>), Line("INTERPRETACION:", <<>>), Line("-", <<50>>)>>
    \o InterpretationLine(bs, 0) \o InterpretationLine(bs, 1) \o InterpretationLine(bs, 2)
    \o (IF total(bs) = 0 THEN <<Line(TextNoFindings, <<>>)>> ELSE <<>>)
    \o <<Line("", <<>>),
         Line("NOTA: Herramienta de apoyo. No reemplaza diagnostico profesional.", <<>>)>>

\* sections 5 to 8 of run_inference
FullPayload(bs) ==
    [summary |-> [total |-> total(bs), per_class |-> per_class(bs)],
     detections |-> detections(bs),
     stats |-> stats(bs),
     report_text |-> report_lines(bs),
     teeth_fdi |-> teeth_fdi_map(bs)]

\* variant: no early return for an empty list of boxes
InferencePayloadNoEarlyReturn(bs) == FullPayload(bs)

\* what run_inference returns for the boxes the detector returned
InferencePayload(bs) ==
    IF Len(bs) = 0
    THEN [summary |-> [total |-> 0, per_class |-> EmptyDict],
          detections |-> <<>>,
          stats |-> EmptyDict,
          report_text |-> <<Line(TextNoDetections, <<>>)>>,
          teeth_fdi |-> EmptyTeeth]
    ELSE FullPayload(bs)

\* app/router.py: the same map rebuilt from the detections of a payload
RECURSIVE build_teeth_fdi_from_detections(_)
build_teeth_fdi_from_detections(dets) ==
    IF dets = <<>>
    THEN EmptyTeeth
    ELSE LET d == dets[Len(dets)]
         IN  AppendTooth(build_teeth_fdi_from_detections(SubSeq(dets, 1, Len(dets) - 1)),
                         d.class_name, d.tooth_fdi)

InitInference ==
    /\ IdleRequest
    /\ x_center_norm = 0
    /\ y_center_norm = 0
    /\ fdi_number = 0
    /\ boxes \in BoxLists
    /\ payload = <<>>
    /\ NoInfoRequest
    /\ NoHistory /\ NoStore /\ NoLogin /\ NoCache /\ NoRepeat

RunInference ==
    /\ payload = <<>>
    /\ payload' = <<InferencePayload(boxes)>>
    /\ UNCHANGED boxes
    /\ UNCHANGED request_vars
    /\ UNCHANGED fdi_vars
    /\ UNCHANGED info_vars
    /\ UNCHANGED later_vars

NextInference == RunInference

SpecInference == InitInference /\ [][NextInference]_vars

(***************************************************************************)
(* app/router.py: GET /fdi-info/{fdi_number}                               *)
(***************************************************************************)
MaxFdiQuery == 120

FdiQueries == (0 - MaxFdiQuery)..MaxFdiQuery

MsgInvalidFdi == "Numero FDI invalido. Debe ser 11-18, 21-28, 31-38 o 41-48"

quadrant_names ==
    (1 :> "Superior Derecho") @@ (2 :> "Superior Izquierdo")
    @@ (3 :> "Inferior Izquierdo") @@ (4 :> "Inferior Derecho")

tooth_names ==
    (1 :> "Incisivo Central") @@ (2 :> "Incisivo Lateral") @@ (3 :> "Canino")
    @@ (4 :> "Primer Premolar") @@ (5 :> "Segundo Premolar") @@ (6 :> "Primer Molar")
    @@ (7 :> "Segundo Molar") @@ (8 :> "Tercer Molar (Muela del Juicio)")

\* dict.get(key, default)
DictGet(dict, key, default) == IF key \in DOMAIN dict THEN dict[key] ELSE default

\* variant: only the range 11..48 is tested
InvalidFdiRangeOnly(n) == n < 11 \/ n > 48

\* the condition under which get_fdi_info raises
InvalidFdi(n) == n < 11 \/ n > 48 \/ n % 10 = 0 \/ n % 10 > 8

get_fdi_info(n) ==
    IF InvalidFdi(n)
    THEN [status |-> 400, detail |-> MsgInvalidFdi]
    ELSE LET quadrant == n \div 10
             position == n % 10
         IN  [status |-> 200,
              fdi |-> n,
              quadrant |-> quadrant,
              quadrant_name |-> DictGet(quadrant_names, quadrant, "Desconocido"),
              position |-> position,
              tooth_name |-> DictGet(tooth_names, position, "Desconocido"),
              tooth_type |-> IF quadrant \in {5, 6, 7, 8}
                             THEN "Temporal (Deciduo)"
                             ELSE "Permanente"]

InitFdiInfo ==
    /\ IdleRequest
    /\ x_center_norm = 0
    /\ y_center_norm = 0
    /\ fdi_number = 0
    /\ NoInference
    /\ info_request \in FdiQueries
    /\ info_response = <<>>
    /\ NoHistory /\ NoStore /\ NoLogin /\ NoCache /\ NoRepeat

GetFdiInfo ==
    /\ info_response = <<>>
    /\ info_response' = <<get_fdi_info(info_request)>>
    /\ UNCHANGED info_request
    /\ UNCHANGED request_vars
    /\ UNCHANGED fdi_vars
    /\ UNCHANGED inference_vars
    /\ UNCHANGED later_vars

NextFdiInfo == GetFdiInfo

SpecFdiInfo == InitFdiInfo /\ [][NextFdiInfo]_vars

(***************************************************************************)
(* Properties of the admission pipeline (specification Spec)               *)
(***************************************************************************)
Validated == admission # <<>>

Verdict == admission[1]

\* colour of pixel i (from 0) of the raster
PixelAt(img, i) == img.tile[(i % Len(img.tile)) + 1]

RasterIndexes(img) == 0..(NumPixels(img) - 1)

RECURSIVE RasterSaturationSum(_, _)
RasterSaturationSum(img, k) ==
    IF k = 0 THEN 0
    ELSE Saturation(PixelAt(img, k - 1)) + RasterSaturationSum(img, k - 1)

\* number of pixels whose saturation (0..255) is above permille / 1000
RasterOverSaturation(img, permille) ==
    Cardinality({i \in RasterIndexes(img) :
                    1000 * Saturation(PixelAt(img, i)) > permille * 255})

\* the file extension: the lower-cased characters after the last "."
RECURSIVE AfterLastDot(_)
AfterLastDot(name) ==
    IF name = <<>> THEN <<>>
    ELSE IF \E i \in 2..Len(name) : name[i] = "." THEN AfterLastDot(Tail(name))
    ELSE IF Head(name) = "." THEN [i \in 1..(Len(name) - 1) |-> Lower(name[i + 1])]
    ELSE <<>>

HasDot(name) == \E i \in 1..Len(name) : name[i] = "."

ImageSuffixes ==
    { <<"j", "p", "g">>, <<"j", "p", "e", "g">>, <<"p", "n", "g">>,
      <<"b", "m", "p">>, <<"t", "i", "f", "f">>, <<"t", "i", "f">> }

VideoSuffixes ==
    { <<"m", "p", "4">>, <<"a", "v", "i">>, <<"m", "o", "v">>, <<"w", "m", "v">> }

NamedAsImage(name) == HasDot(name) /\ AfterLastDot(name) \in ImageSuffixes

NamedAsPdf(name) == HasDot(name) /\ AfterLastDot(name) = <<"p", "d", "f">>

NamedAsVideo(name) == HasDot(name) /\ AfterLastDot(name) \in VideoSuffixes

StartsWithPdfMagic(f) ==
    Len(f.head) >= 4 /\ f.head[1] = "%" /\ f.head[2] = "P" /\ f.head[3] = "D"
        /\ f.head[4] = "F"

GateOrder ==
    <<"extension", "pdf_magic", "decode", "size", "saturation", "contrast",
      "drawing", "intensity">>

\* whether gate g rejects the request's file; asked only when every earlier gate passed
GateRejects(g) ==
    CASE g = "extension" -> ~NamedAsImage(filename)
      [] g = "pdf_magic" -> StartsWithPdfMagic(file)
      [] g = "decode" -> ~file.decodes
      [] g = "size" -> file.img.width > 10000 \/ file.img.height > 10000
      [] g = "saturation" -> SaturationRejects(file.img)
      [] g = "contrast" -> LowContrast(file.img)
      [] g = "drawing" -> LooksLikeDrawing(file.img)
      [] g = "intensity" -> LacksIntensityPattern(file.img)

GateMessage(g) ==
    CASE g = "extension" ->
            IF NamedAsPdf(filename) THEN MsgPdfExtension
            ELSE IF NamedAsVideo(filename) THEN MsgVideo ELSE MsgUnsupported
      [] g = "pdf_magic" -> MsgDisguisedPdf
      [] g = "decode" -> MsgCorrupt
      [] g = "size" -> MsgTooLarge(file.img.width, file.img.height)
      [] g = "saturation" -> MsgColor
      [] g = "contrast" -> MsgLowContrast
      [] g = "drawing" -> MsgDrawing
      [] g = "intensity" -> MsgIntensity

\* the gates evaluated are the first k of the fixed order
GatesArePrefix(gates, k) == SubSeq(gates, 1, k) = SubSeq(GateOrder, 1, k)

\* C1: validate_dental_xray evaluates the gates in the order extension, PDF
\* magic, decode, size, saturation, contrast, drawing, intensity; a rejection
\* comes from the first gate that fails, carries that gate's message, and no
\* later gate is evaluated; a *.pdf name with %PDF bytes gets the PDF-extension
\* message.
C1_GateOrder ==
    Validated =>
        LET gates == Verdict.gates
            k == IF Verdict.is_valid THEN Len(GateOrder) ELSE Len(gates)
        IN  /\ k \in 1..Len(GateOrder)
            /\ GatesArePrefix(gates, k)
            /\ \A j \in 1..(k - 1) : ~GateRejects(GateOrder[j])
            /\ IF Verdict.is_valid
               THEN /\ ~GateRejects(GateOrder[k])
                    /\ gates = GateOrder \o <<"panoramic">>
               ELSE /\ GateRejects(GateOrder[k])
                    /\ Verdict.msg = GateMessage(GateOrder[k])
            /\ (NamedAsPdf(filename) /\ StartsWithPdfMagic(file)) =>
                  /\ ~Verdict.is_valid
                  /\ Verdict.msg = MsgPdfExtension
                  /\ Verdict.msg # MsgDisguisedPdf
                  /\ Verdict.msg # MsgUnsupported

C1_Witness ==
    /\ Validated
    /\ NamedAsPdf(filename)
    /\ StartsWithPdfMagic(file)
    /\ Verdict.gates = <<"extension">>
    /\ Verdict.msg = MsgPdfExtension

\* C2 (as claimed): whenever the detector is called, validate_dental_xray has
\* accepted that same image before, on /analyze, /analyze-public and /analyze-url.
C2_AllEndpointsAdmit ==
    detector_input # <<>> =>
        /\ Validated
        /\ Verdict.is_valid
        /\ file.decodes
        /\ detector_input = <<file.img>>

\* C2 (amended): on /analyze and /analyze-public the detector is called only
\* with the image validate_dental_xray accepted, and a rejected image never
\* reaches it; /analyze-url calls the detector without any admission.
C2_UploadEndpointsAdmit ==
    /\ (detector_input # <<>> /\ endpoint \in {"analyze", "analyze_public"}) =>
          /\ Validated
          /\ Verdict.is_valid
          /\ file.decodes
          /\ detector_input = <<file.img>>
    /\ (Validated /\ ~Verdict.is_valid) => detector_input = <<>>
    /\ endpoint = "analyze_url" => ~Validated

C2_Witness ==
    /\ endpoint = "analyze"
    /\ detector_input # <<>>
    /\ Validated
    /\ Verdict.is_valid

SaturationEvaluated == Validated /\ Len(Verdict.gates) >= 5

RejectedBySaturation ==
    /\ SaturationEvaluated
    /\ ~Verdict.is_valid
    /\ Len(Verdict.gates) = 5
    /\ Verdict.gates[5] = "saturation"

\* mean saturation > permille / 1000
MeanSaturationOver(img, permille) ==
    1000 * RasterSaturationSum(img, NumPixels(img)) > permille * 255 * NumPixels(img)

\* fraction of pixels with saturation > level exceeds share (both in permille)
ShareOverSaturation(img, level, share) ==
    1000 * RasterOverSaturation(img, level) > share * NumPixels(img)

\* C3 (as claimed): the saturation gate rejects exactly when mean saturation
\* > 0.10, or the share of pixels with saturation > 0.35 exceeds 0.10, or mean
\* saturation > 0.05 and the share with saturation > 0.20 exceeds 0.40, or the
\* share with saturation > 0.20 exceeds 0.45.
C3_FourCriteria ==
    SaturationEvaluated =>
        (RejectedBySaturation <=>
            \/ MeanSaturationOver(file.img, 100)
            \/ ShareOverSaturation(file.img, 350, 100)
            \/ /\ MeanSaturationOver(file.img, 50)
               /\ ShareOverSaturation(file.img, 200, 400)
            \/ ShareOverSaturation(file.img, 200, 450))

\* C3 (amended): the saturation gate rejects exactly when the share of pixels
\* with saturation > 0.35 exceeds 0.25, or the share with saturation > 0.20
\* exceeds 0.60, or mean saturation > 0.18; otherwise the image passes it.
C3_ThreeCriteria ==
    SaturationEvaluated =>
        /\ RejectedBySaturation <=>
              \/ ShareOverSaturation(file.img, 350, 250)
              \/ ShareOverSaturation(file.img, 200, 600)
              \/ MeanSaturationOver(file.img, 180)
        /\ ~RejectedBySaturation => Verdict.gates[6] = "contrast"

\* an image of mean saturation in (0.10, 0.18] passes the saturation gate
C3_Witness ==
    /\ SaturationEvaluated
    /\ ~RejectedBySaturation
    /\ MeanSaturationOver(file.img, 100)

\* the ratios (as rationals) of the criteria of the code's condition that hold
TriggeringRatios(img) ==
    (IF ShareOverSaturation(img, 350, 250)
     THEN {<<RasterOverSaturation(img, 350), NumPixels(img)>>} ELSE {})
    \cup (IF ShareOverSaturation(img, 200, 600)
          THEN {<<RasterOverSaturation(img, 200), NumPixels(img)>>} ELSE {})
    \cup (IF MeanSaturationOver(img, 180)
          THEN {<<RasterSaturationSum(img, NumPixels(img)), 255 * NumPixels(img)>>}
          ELSE {})

MeanSaturationPercent(img) ==
    <<100 * RasterSaturationSum(img, NumPixels(img)), 255 * NumPixels(img)>>

Percent(ratio) == <<100 * ratio[1], ratio[2]>>

\* C4 (as claimed): a saturation rejection returns as its score the ratio (mean
\* saturation or coloured-pixel share, as a fraction or as a percentage) of
\* the criterion that fired, so the score tells which threshold fired.
C4_ScoreIsTriggeringRatio ==
    RejectedBySaturation =>
        /\ Verdict.details.xray_confidence.sqrt_of[1] = 0
        /\ \A ratio \in TriggeringRatios(file.img) :
              \/ RatEq(Verdict.details.xray_confidence.plus, ratio)
              \/ RatEq(Verdict.details.xray_confidence.plus, Percent(ratio))

\* C4 (amended): the saturation gate has one rejection branch; whichever
\* criterion fired it returns the same message and mean saturation x 100 as
\* the score.
C4_ScoreIsMeanSaturation ==
    RejectedBySaturation =>
        /\ Verdict.msg = MsgColor
        /\ Verdict.details.xray_confidence.sqrt_of[1] = 0
        /\ RatEq(Verdict.details.xray_confidence.plus, MeanSaturationPercent(file.img))

\* rejected for the share of strongly coloured pixels alone
C4_Witness ==
    /\ RejectedBySaturation
    /\ ShareOverSaturation(file.img, 350, 250)
    /\ ~ShareOverSaturation(file.img, 200, 600)
    /\ ~MeanSaturationOver(file.img, 180)

ExtensionMessages == {MsgPdfExtension, MsgVideo, MsgUnsupported}

\* all spellings of the request's filename that differ in letter case only
SameNameOtherCase == {name \in Filenames : StrLower(name) = StrLower(filename)}

\* C5: a filename without an image extension is rejected without opening the
\* bytes, with the export-as-image message for .pdf, the video message for
\* .mp4/.avi/.mov/.wmv and the generic message otherwise; the three differ
\* pairwise and depend on the filename alone, not on content or letter case.
C5_ExtensionMessages ==
    (Validated /\ ~NamedAsImage(filename)) =>
        /\ ~Verdict.is_valid
        /\ Verdict.gates = <<"extension">>
        /\ Verdict.msg =
              IF NamedAsPdf(filename) THEN MsgPdfExtension
              ELSE IF NamedAsVideo(filename) THEN MsgVideo ELSE MsgUnsupported
        /\ Cardinality(ExtensionMessages) = 3
        /\ \A f \in {PdfFile, GarbageFile, EmptyFile, file} :
              validate_image_file(f, filename).msg = Verdict.msg
        /\ \A name \in SameNameOtherCase :
              validate_image_file(file, name).msg = Verdict.msg

\* a video extension in mixed case on a file that decodes
C5_Witness ==
    /\ Validated
    /\ filename = <<"x", ".", "A", "v", "i">>
    /\ file.decodes
    /\ Verdict.msg = MsgVideo
    /\ Verdict.gates = <<"extension">>

\* C6 (as claimed): a file starting with %PDF is rejected with the
\* disguised-PDF message whatever its filename extension.
C6_AlwaysDisguisedMessage ==
    (Validated /\ StartsWithPdfMagic(file)) =>
        /\ ~Verdict.is_valid
        /\ Verdict.msg = MsgDisguisedPdf

\* C6 (amended): a file starting with %PDF is always rejected; it carries the
\* disguised-PDF message exactly when its filename has an image extension, and
\* the extension gate's message otherwise; the disguised-PDF message differs
\* from the three extension messages and from the corrupt-image message.
C6_DisguisedIfImageName ==
    (Validated /\ StartsWithPdfMagic(file)) =>
        /\ ~Verdict.is_valid
        /\ NamedAsImage(filename) => Verdict.msg = MsgDisguisedPdf
        /\ ~NamedAsImage(filename) => Verdict.msg \in ExtensionMessages
        /\ MsgDisguisedPdf \notin ExtensionMessages \cup {MsgCorrupt}

C6_Witness ==
    /\ Validated
    /\ StartsWithPdfMagic(file)
    /\ NamedAsImage(filename)
    /\ Verdict.msg = MsgDisguisedPdf

\* C7: an image that passes validate_image_file and validate_is_xray is
\* accepted whatever its width/height ratio, and details.is_panoramic is true
\* exactly when 1.4 <= width/height <= 4.0.
C7_PanoramicNeverRejects ==
    (/\ Validated
     /\ validate_image_file(file, filename).ok
     /\ validate_is_xray(file.img).ok) =>
        /\ Verdict.is_valid
        /\ Verdict.details.is_panoramic =
              (5 * file.img.width >= 7 * file.img.height
                  /\ file.img.width <= 4 * file.img.height)

\* accepted although the ratio is outside [1.4, 4.0]
C7_Witness ==
    /\ Validated
    /\ Verdict.is_valid
    /\ ~Verdict.details.is_panoramic
    /\ 5 * file.img.width < 7 * file.img.height

(***************************************************************************)
(* Properties of calculate_fdi (specification SpecFdi)                     *)
(***************************************************************************)
Computed == fdi_number # 0

\* C8: for every (x, y) in [0,1] x [0,1], the boundary values included,
\* calculate_fdi returns a code in {11..18, 21..28, 31..38, 41..48}: tens
\* digit in 1..4, units digit in 1..8.
C8_FdiInRange ==
    Computed =>
        /\ fdi_number \in (11..18) \cup (21..28) \cup (31..38) \cup (41..48)
        /\ fdi_number \div 10 \in 1..4
        /\ fdi_number % 10 \in 1..8

\* the corner x = 1, y = 1
C8_Witness ==
    /\ Computed
    /\ x_center_norm = Grid
    /\ y_center_norm = Grid

\* C9: the quadrant digit is 1 for x < 0.5, y < 0.5; 2 for x >= 0.5, y < 0.5;
\* 4 for x < 0.5, y >= 0.5; 3 for x >= 0.5, y >= 0.5; 0.5 itself counts as
\* right (x) and lower (y).
C9_Quadrant ==
    Computed =>
        LET left == x_center_norm < HalfGrid
            top == y_center_norm < HalfGrid
        IN  fdi_number \div 10 =
                CASE left /\ top -> 1
                  [] ~left /\ top -> 2
                  [] left /\ ~top -> 4
                  [] ~left /\ ~top -> 3

\* the centre x = 0.5, y = 0.5 lies in quadrant 3
C9_Witness ==
    /\ Computed
    /\ x_center_norm = HalfGrid
    /\ y_center_norm = HalfGrid
    /\ fdi_number \div 10 = 3

\* x lies in slot k (from 0) of sixteen slots of width 1/16, left boundary included
InSixteenth(xk, k) == 16 * xk >= k * Grid /\ 16 * xk < (k + 1) * Grid

\* C10: calculate_fdi returns quadrant * 10 + position; each image half is cut
\* into 8 slots of width 1/16 numbered 1..8 from left to right, a slot's left
\* boundary belonging to it; x = 0.5 and x = 1.0 fall in slot 1 of the right
\* half.
C10_Position ==
    Computed =>
        /\ fdi_number = (10 * (fdi_number \div 10)) + (fdi_number % 10)
        /\ \A k \in 0..15 :
              InSixteenth(x_center_norm, k) => fdi_number % 10 = (k % 8) + 1
        /\ x_center_norm \in {HalfGrid, Grid} =>
              /\ fdi_number % 10 = 1
              /\ fdi_number \div 10 \in {2, 3}

\* x = 1.0 is slot 1 of the right half
C10_Witness ==
    /\ Computed
    /\ x_center_norm = Grid
    /\ fdi_number % 10 = 1
    /\ fdi_number \div 10 \in {2, 3}

\* 2 * Grid * |x - 0.5|
MidlineDistance(xk) == IF 2 * xk >= Grid THEN (2 * xk) - Grid ELSE Grid - (2 * xk)

SameHalf(xk, other) == BelowHalf(xk) <=> BelowHalf(other)

\* C11: in all four quadrants position 1 goes to the slot next to the vertical
\* midline x = 0.5 and position 8 to the slot farthest from it: within each
\* image half the position digit never decreases as |x - 0.5| grows.
C11_PositionGrowsFromMidline ==
    Computed =>
        LET dist == MidlineDistance(x_center_norm)
        IN  /\ (0 < 8 * dist /\ 8 * dist < Grid) => fdi_number % 10 = 1
            /\ (8 * dist > 7 * Grid /\ dist < Grid) => fdi_number % 10 = 8
            /\ \A other \in Coordinates :
                  ( /\ SameHalf(x_center_norm, other)
                    /\ MidlineDistance(other) >= dist )
                  => calculate_fdi(other, y_center_norm) % 10 >= fdi_number % 10

(***************************************************************************)
(* Properties of run_inference (specification SpecInference)               *)
(***************************************************************************)
Returned == payload # <<>>

Result == payload[1]

RECURSIVE DictSum(_)
DictSum(d) ==
    IF DOMAIN d = {}
    THEN 0
    ELSE LET key == CHOOSE k \in DOMAIN d : TRUE
         IN  d[key] + DictSum([k \in DOMAIN d \ {key} |-> d[k]])

Occurrences(list, v) == Cardinality({i \in 1..Len(list) : list[i] = v})

\* C12: for every list of N boxes with class ids in {0, 1, 2} the payload has
\* summary.total = N = len(detections) = the sum of the values of
\* summary.per_class, and stats[c].count = summary.per_class[c] for every
\* class c that has a box.
C12_CountsAgree ==
    Returned =>
        /\ Result.summary.total = Len(boxes)
        /\ Len(Result.detections) = Len(boxes)
        /\ DictSum(Result.summary.per_class) = Len(boxes)
        /\ \A i \in 1..Len(boxes) :
              LET c == CLASS_NAMES[boxes[i].cls]
              IN  /\ c \in DOMAIN Result.summary.per_class
                  /\ c \in DOMAIN Result.stats
                  /\ Result.stats[c].count = Result.summary.per_class[c]

\* three boxes of two classes, two of them on the same tooth
C12_Witness ==
    /\ Returned
    /\ Len(boxes) = 3
    /\ Result.summary.total = 3
    /\ DOMAIN Result.summary.per_class = {"Caries", "Perdida_Osea"}
    /\ Result.summary.per_class["Caries"] = 2
    /\ Len(Result.teeth_fdi["Caries"]) = 1

\* C13: teeth_fdi[c] holds a tooth code t exactly once if some detection has
\* class c and FDI code t, and not at all otherwise: repeated detections of a
\* class on a tooth give no duplicate, and no list holds a tooth that no
\* detection of its class produced.  The map the router can rebuild from the
\* detections is the same map.
C13_TeethOncePerClass ==
    Returned =>
        /\ \A cid \in ClassIds, t \in 11..48 :
              Occurrences(Result.teeth_fdi[CLASS_NAMES[cid]], t) =
                  IF \E i \in 1..Len(Result.detections) :
                        /\ Result.detections[i].class_id = cid
                        /\ Result.detections[i].fdi = t
                  THEN 1
                  ELSE 0
        /\ \A cname \in DOMAIN Result.teeth_fdi :
              \A i \in 1..Len(Result.teeth_fdi[cname]) :
                 Result.teeth_fdi[cname][i] \in 11..48
        /\ build_teeth_fdi_from_detections(Result.detections) = Result.teeth_fdi

\* the same class three times on one tooth
C13_Witness ==
    /\ Returned
    /\ Len(boxes) = 3
    /\ \A i \in 1..3 : boxes[i].cls = 1 /\ BoxFdi(boxes[i]) = BoxFdi(boxes[1])
    /\ boxes[1].xyxy # boxes[2].xyxy
    /\ Len(Result.teeth_fdi["Diente_Retenido"]) = 1
    /\ Result.teeth_fdi["Caries"] = <<>>

HasLine(report, text) == \E i \in 1..Len(report) : report[i].text = text

\* C14 as stated: with zero boxes the payload has total 0, a count of 0 for
\* each of the three classes, no detections, empty tooth lists and a report
\* holding the fixed phrase for no findings.
C14_ZeroBoxesZeroCounts ==
    (Returned /\ Len(boxes) = 0) =>
        /\ Result.summary.total = 0
        /\ \A cname \in ClassNames :
              /\ cname \in DOMAIN Result.summary.per_class
              /\ Result.summary.per_class[cname] = 0
        /\ Result.detections = <<>>
        /\ \A cname \in ClassNames : Result.teeth_fdi[cname] = <<>>
        /\ \/ HasLine(Result.report_text, TextNoFindings)
           \/ HasLine(Result.report_text, TextNoDetections)

\* C14: with zero boxes run_inference returns a payload with total 0, no
\* detections, empty tooth lists for the three classes, per_class and stats
\* empty (no class has an entry), and a report that is the one sentence
\* "No se detectaron problemas dentales en esta imagen."; the line
\* "Sin hallazgos significativos" is not in it.
C14_ZeroBoxesEmptyPayload ==
    (Returned /\ Len(boxes) = 0) =>
        /\ Result.summary.total = 0
        /\ DOMAIN Result.summary.per_class = {}
        /\ DOMAIN Result.stats = {}
        /\ Result.detections = <<>>
        /\ DOMAIN Result.teeth_fdi = ClassNames
        /\ \A cname \in ClassNames : Result.teeth_fdi[cname] = <<>>
        /\ Result.report_text = <<Line(TextNoDetections, <<>>)>>
        /\ ~HasLine(Result.report_text, TextNoFindings)

\* the detector returned no box and run_inference returned
C14_Witness ==
    /\ Returned
    /\ boxes = <<>>
    /\ Result.summary.total = 0

(***************************************************************************)
(* Further properties of the admission pipeline (specification Spec)       *)
(***************************************************************************)
UploadEndpoint == endpoint \in {"analyze", "analyze_public"}

\* the gate whose verdict ended a rejected validation
RejectingGate == Verdict.gates[Len(Verdict.gates)]

RECURSIVE RasterLumaSum(_, _)
RasterLumaSum(img, k) ==
    IF k = 0 THEN 0 ELSE Luma(PixelAt(img, k - 1)) + RasterLumaSum(img, k - 1)

RECURSIVE RasterLumaSquareSum(_, _)
RasterLumaSquareSum(img, k) ==
    IF k = 0 THEN 0
    ELSE Luma(PixelAt(img, k - 1)) * Luma(PixelAt(img, k - 1))
            + RasterLumaSquareSum(img, k - 1)

\* n^2 times the variance of the gray levels
RasterVariance(img) ==
    NumPixels(img) * RasterLumaSquareSum(img, NumPixels(img))
        - RasterLumaSum(img, NumPixels(img)) * RasterLumaSum(img, NumPixels(img))

\* standard deviation of the gray levels < bound
StdBelow(img, bound) == RasterVariance(img) < bound * bound * NumPixels(img) * NumPixels(img)

\* number of pixels with gray level in lo..hi
RasterGrayCount(img, lo, hi) ==
    Cardinality({i \in RasterIndexes(img) : Luma(PixelAt(img, i)) \in lo..hi})

IsUniform(img) == Len(img.tile) = 1

IsUniformGray(img) ==
    /\ IsUniform(img)
    /\ img.tile[1][1] = img.tile[1][2]
    /\ img.tile[1][2] = img.tile[1][3]

ContrastEvaluated == Validated /\ Len(Verdict.gates) >= 6

RejectedByContrast ==
    /\ ContrastEvaluated
    /\ ~Verdict.is_valid
    /\ Len(Verdict.gates) = 6
    /\ Verdict.gates[6] = "contrast"

\* C16: an image that passes the saturation gate is rejected with the
\* low-contrast message exactly when the standard deviation of its gray
\* levels is strictly below 12 (exactly 12 passes); a uniform gray image
\* (deviation 0) is rejected by the contrast gate and by no earlier gate.
C16_LowContrast ==
    /\ ContrastEvaluated =>
          /\ RejectedByContrast <=> StdBelow(file.img, 12)
          /\ RejectedByContrast => Verdict.msg = MsgLowContrast
          /\ ~RejectedByContrast => Verdict.msg # MsgLowContrast
    /\ (SaturationEvaluated /\ IsUniformGray(file.img)) =>
          /\ RejectedByContrast
          /\ RasterVariance(file.img) = 0

\* a two-level image whose deviation lies between 11 and 12 is rejected
C16_Witness ==
    /\ RejectedByContrast
    /\ Verdict.msg = MsgLowContrast
    /\ ~IsUniform(file.img)
    /\ ~StdBelow(file.img, 11)
    /\ StdBelow(file.img, 12)

DrawingEvaluated == Validated /\ Len(Verdict.gates) >= 7

RejectedAsDrawing ==
    /\ DrawingEvaluated
    /\ ~Verdict.is_valid
    /\ Len(Verdict.gates) = 7
    /\ Verdict.gates[7] = "drawing"

\* C17: an image that passed the saturation and contrast gates is rejected as
\* a drawing exactly when the fraction of pixels with gray level in [50, 200]
\* is < 0.25 and the fraction below 50 is > 0.30 or the fraction above 200 is
\* > 0.30; the three fractions sum to 1.
C17_DrawingGate ==
    DrawingEvaluated =>
        LET n == NumPixels(file.img)
            dark == RasterGrayCount(file.img, 0, 49)
            mid == RasterGrayCount(file.img, 50, 200)
            bright == RasterGrayCount(file.img, 201, 255)
        IN  /\ RejectedAsDrawing <=>
                  /\ 100 * mid < 25 * n
                  /\ 100 * dark > 30 * n \/ 100 * bright > 30 * n
            /\ RejectedAsDrawing => Verdict.msg = MsgDrawing
            /\ dark + mid + bright = n
            /\ DarkPixels(file.img) + MidPixels(file.img) + BrightPixels(file.img) = n
            /\ DarkPixels(file.img) = dark
            /\ MidPixels(file.img) = mid
            /\ BrightPixels(file.img) = bright

\* black, white and a few mid-gray pixels: mid fraction below 0.25 but not 0
C17_Witness ==
    /\ RejectedAsDrawing
    /\ Verdict.msg = MsgDrawing
    /\ RasterGrayCount(file.img, 50, 200) > 0
    /\ 100 * RasterGrayCount(file.img, 50, 200) < 25 * NumPixels(file.img)

IntensityEvaluated == Validated /\ Len(Verdict.gates) >= 8

\* C18: an image that passed the saturation, contrast and drawing gates is
\* rejected exactly when the fraction of pixels below 50 is < 0.01 or the
\* fraction above 200 is < 0.002, and accepted otherwise; no accepted image
\* lacks pixels below 50 or pixels above 200.
C18_IntensityGate ==
    /\ IntensityEvaluated =>
          LET n == NumPixels(file.img)
              dark == RasterGrayCount(file.img, 0, 49)
              bright == RasterGrayCount(file.img, 201, 255)
              lacking == 100 * dark < n \/ 1000 * bright < 2 * n
          IN  /\ ~Verdict.is_valid <=> lacking
              /\ ~Verdict.is_valid =>
                    /\ Verdict.msg = MsgIntensity
                    /\ Verdict.gates[Len(Verdict.gates)] = "intensity"
    /\ (Validated /\ Verdict.is_valid) =>
          /\ RasterGrayCount(file.img, 0, 49) > 0
          /\ RasterGrayCount(file.img, 201, 255) > 0

\* bright and mid-gray pixels but none below 50: rejected by the last gate
C18_Witness ==
    /\ IntensityEvaluated
    /\ ~Verdict.is_valid
    /\ Verdict.msg = MsgIntensity
    /\ RasterGrayCount(file.img, 0, 49) = 0
    /\ RasterGrayCount(file.img, 201, 255) > 0

\* the colours of the uniform images of the sweep, saturation 0 to 1
UniformColours == {tile[1] : tile \in {t \in Tiles : Len(t) = 1}}

\* saturation (0..255) above permille / 1000
SaturationOver(c, permille) == 1000 * Saturation(c) > permille * 255

\* C19 as stated: over the uniform-colour images, saturation swept from 0 to
\* 1, the admission verdict is accepted at low saturation, is rejected once
\* the mean saturation is above 0.10, and is never accepted again at a higher
\* saturation.
C19_SweepFlipsByTenth ==
    (SaturationEvaluated /\ IsUniform(file.img)) =>
        LET colour == file.img.tile[1]
        IN  /\ Saturation(colour) = 0 => Verdict.is_valid
            /\ SaturationOver(colour, 100) => ~Verdict.is_valid
            /\ ~Verdict.is_valid =>
                  \A c \in UniformColours :
                     Saturation(c) >= Saturation(colour) =>
                        ~validate_is_xray(Image(<<file.img.width, file.img.height>>, <<c>>)).ok

\* C19: a uniform-colour image is never accepted.  Up to a saturation of 0.18
\* it passes the saturation gate and is rejected by the contrast gate (its
\* gray levels have deviation 0); above 0.18 the saturation gate rejects it,
\* and rejects every uniform image of a higher saturation as well.
C19_UniformNeverAccepted ==
    (SaturationEvaluated /\ IsUniform(file.img)) =>
        LET colour == file.img.tile[1]
        IN  /\ ~Verdict.is_valid
            /\ RejectedBySaturation <=> SaturationOver(colour, 180)
            /\ ~RejectedBySaturation => RejectedByContrast
            /\ RejectedBySaturation =>
                  \A c \in UniformColours :
                     Saturation(c) >= Saturation(colour) =>
                        validate_is_xray(Image(<<file.img.width, file.img.height>>, <<c>>)).gates
                            = <<"saturation">>

\* a uniform image of saturation between 0.10 and 0.18 passes the saturation
\* gate and is rejected for its contrast
C19_Witness ==
    /\ SaturationEvaluated
    /\ IsUniform(file.img)
    /\ SaturationOver(file.img.tile[1], 100)
    /\ ~SaturationOver(file.img.tile[1], 180)
    /\ RejectedByContrast

(***************************************************************************)
(* Properties of GET /fdi-info (specification SpecFdiInfo)                 *)
(***************************************************************************)
Answered == info_response # <<>>

Info == info_response[1]

ValidFdiCodes == (11..18) \cup (21..28) \cup (31..38) \cup (41..48)

\* C20: GET /fdi-info/{n} succeeds exactly for the 32 integers n of 11..18,
\* 21..28, 31..38 and 41..48 and answers 400 for every other integer; for an
\* accepted n, quadrant = n div 10 is in 1..4, position = n mod 10 is in 1..8
\* and both names are known ones, never "Desconocido".
C20_FdiInfo ==
    Answered =>
        /\ Cardinality(ValidFdiCodes) = 32
        /\ Info.status = 200 <=> info_request \in ValidFdiCodes
        /\ Info.status # 200 => Info.status = 400 /\ Info.detail = MsgInvalidFdi
        /\ ( \/ info_request < 11
             \/ info_request > 48
             \/ info_request % 10 = 0
             \/ info_request % 10 > 8 ) => Info.status = 400
        /\ Info.status = 200 =>
              /\ Info.fdi = info_request
              /\ Info.quadrant = info_request \div 10
              /\ Info.quadrant \in 1..4
              /\ Info.position = info_request % 10
              /\ Info.position \in 1..8
              /\ Info.quadrant_name = quadrant_names[Info.quadrant]
              /\ Info.tooth_name = tooth_names[Info.position]
              /\ Info.quadrant_name # "Desconocido"
              /\ Info.tooth_name # "Desconocido"

\* the last valid code
C20_Witness ==
    /\ Answered
    /\ info_request = 48
    /\ Info.status = 200
    /\ Info.quadrant_name = "Inferior Derecho"
    /\ Info.tooth_name = "Tercer Molar (Muela del Juicio)"


(***************************************************************************)
(* The analysis history: app/models.py, app/auth.py, app/router.py         *)
(***************************************************************************)
\* how many rows are ever inserted into "analyses"
MaxRows == 3

\* table "users"
UserTable == {[id |-> 1, email |-> "ana"], [id |-> 2, email |-> "bob"]}

\* Authorization headers: none, a bearer that is not a token of this server,
\* a token without "sub", and tokens whose "sub" is an address
NoToken == [kind |-> "missing", sub |-> ""]

GarbageToken == [kind |-> "garbage", sub |-> ""]

Token(sub) == [kind |-> "jwt", sub |-> sub]

MsgNotAuthenticated == "Not authenticated"

cred_exc == [user |-> <<>>, error |-> <<Response(401, MsgCredentials)>>]

\* variant: a token whose subject has no row is served as some user
get_current_user_without_lookup(token) ==
    IF token.kind = "missing"
    THEN [user |-> <<>>, error |-> <<Response(401, MsgNotAuthenticated)>>]
    ELSE IF token.kind # "jwt" \/ token.sub = ""
    THEN cred_exc
    ELSE LET found == {u \in UserTable : u.email = token.sub}
         IN  [user |-> <<CHOOSE u \in (IF found = {} THEN UserTable ELSE found) : TRUE>>,
              error |-> <<>>]

\* oauth2_scheme, then get_current_user: the row of "users", or the 401
get_current_user(token) ==
    IF token.kind = "missing"
    THEN [user |-> <<>>, error |-> <<Response(401, MsgNotAuthenticated)>>]
    ELSE IF token.kind # "jwt" \/ token.sub = ""
    THEN cred_exc
    ELSE LET found == {u \in UserTable : u.email = token.sub}
         IN  IF found = {}
             THEN cred_exc
             ELSE [user |-> <<CHOOSE u \in found : TRUE>>, error |-> <<>>]

\* what model.predict does for a handler: it raises, or it returns boxes
DetectorResults(box_lists) ==
    {[outcome |-> "raised", boxes |-> <<>>]}
        \cup {[outcome |-> "returned", boxes |-> bs] : bs \in box_lists}

\* _count(cls_name) of the handler analyze
count_detections(dets, cls_name) ==
    Cardinality({i \in 1..Len(dets) : dets[i].class_name = cls_name})

UserRows(rows, user_id) == {r \in rows : r.user_id = user_id}

\* variant: the next index is the number of rows of the user plus one
next_idx_from_row_count(rows, user_id) == Cardinality(UserRows(rows, user_id)) + 1

\* the greatest per_user_index of the user (0 when there is none) plus one
next_idx(rows, user_id) ==
    LET indexes == {r.per_user_index : r \in UserRows(rows, user_id)}
    IN  (IF indexes = {}
         THEN 0
         ELSE CHOOSE m \in indexes : \A i \in indexes : i <= m) + 1

\* variant: total_detections counts the classes that were found
AnalysisTotalOfClasses(id, user_id, idx, name, dets) ==
    [id |-> id,
     user_id |-> user_id,
     per_user_index |-> idx,
     image_filename |-> name,
     total_detections |-> Cardinality({dets[i].class_name : i \in 1..Len(dets)}),
     caries_count |-> count_detections(dets, "Caries"),
     diente_retenido_count |-> count_detections(dets, "Diente_Retenido"),
     perdida_osea_count |-> count_detections(dets, "Perdida_Osea")]

\* models.Analysis(...) as the handler analyze fills it
Analysis(id, user_id, idx, name, dets) ==
    [id |-> id,
     user_id |-> user_id,
     per_user_index |-> idx,
     image_filename |-> name,
     total_detections |-> Len(dets),
     caries_count |-> count_detections(dets, "Caries"),
     diente_retenido_count |-> count_detections(dets, "Diente_Retenido"),
     perdida_osea_count |-> count_detections(dets, "Perdida_Osea")]

\* the locals of a handler that serves no request; arrived records how many
\* rows had been inserted when its POST /analyze came in
IdleHandler ==
    [pc |-> "idle", op |-> "none", arrived |-> 0, token |-> NoToken, user |-> <<>>,
     filename |-> NoName, file |-> EmptyFile, content_type |-> "None",
     save |-> FALSE, analysis_id |-> 0, validated |-> FALSE,
     detector_input |-> <<>>, detector_outcome |-> "none", found |-> <<>>,
     added |-> <<>>, response |-> <<>>, body |-> <<>>]

Answer(me, status, detail, body) ==
    [me EXCEPT !.pc = "done", !.response = <<Response(status, detail)>>, !.body = body]

\* a request arrives: POST /analyze, GET /analyses or DELETE /analyses/{id}
StartAnalyze(h, inputs) ==
    /\ handlers[h].pc = "idle"
    /\ \E token \in inputs.tokens, f \in inputs.files, ct \in inputs.content_types,
          save \in inputs.saves :
            handlers' = [handlers EXCEPT ![h] =
                            [IdleHandler EXCEPT !.pc = "auth", !.op = "analyze",
                                                !.arrived = next_row_id,
                                                !.token = token, !.file = f.bytes,
                                                !.filename = f.name,
                                                !.content_type = ct, !.save = save]]
    /\ UNCHANGED <<analyses, next_row_id>>
    /\ UNCHANGED early_vars
    /\ UNCHANGED <<store_vars, login_vars, cache_vars, repeat_vars>>

StartListAnalyses(h, inputs) ==
    /\ handlers[h].pc = "idle"
    /\ \E token \in inputs.tokens :
            handlers' = [handlers EXCEPT ![h] =
                            [IdleHandler EXCEPT !.pc = "auth", !.op = "list",
                                                !.token = token]]
    /\ UNCHANGED <<analyses, next_row_id>>
    /\ UNCHANGED early_vars
    /\ UNCHANGED <<store_vars, login_vars, cache_vars, repeat_vars>>

StartDeleteAnalysis(h, inputs) ==
    /\ handlers[h].pc = "idle"
    /\ \E token \in inputs.tokens, analysis_id \in 1..MaxRows :
            handlers' = [handlers EXCEPT ![h] =
                            [IdleHandler EXCEPT !.pc = "auth", !.op = "delete",
                                                !.token = token,
                                                !.analysis_id = analysis_id]]
    /\ UNCHANGED <<analyses, next_row_id>>
    /\ UNCHANGED early_vars
    /\ UNCHANGED <<store_vars, login_vars, cache_vars, repeat_vars>>

\* the dependency get_current_user, solved before the body of the handler runs
Authenticate(h) ==
    LET me == handlers[h]
        who == get_current_user(me.token)
    IN  /\ me.pc = "auth"
        /\ handlers' = [handlers EXCEPT ![h] =
                            IF who.error # <<>>
                            THEN [me EXCEPT !.pc = "done", !.response = who.error]
                            ELSE [me EXCEPT !.pc = "handler", !.user = who.user]]
        /\ UNCHANGED <<analyses, next_row_id>>
        /\ UNCHANGED early_vars
        /\ UNCHANGED <<store_vars, login_vars, cache_vars, repeat_vars>>

\* variant: an exception of the detector becomes a payload without detections
AnalyzeDetectedSwallowing(h, me, image, detected) ==
    LET result == InferencePayload(detected.boxes)
        called == [me EXCEPT !.validated = TRUE, !.detector_input = <<image>>,
                             !.detector_outcome = detected.outcome]
    IN  IF me.save
        THEN LET row == Analysis(next_row_id, me.user[1].id,
                                 next_idx(analyses, me.user[1].id),
                                 me.filename, result.detections)
             IN  /\ analyses' = analyses \cup {row}
                 /\ next_row_id' = next_row_id + 1
                 /\ handlers' = [handlers EXCEPT ![h] =
                                    Answer([called EXCEPT !.added = <<row.id>>],
                                           200, "", <<result>>)]
        ELSE /\ handlers' = [handlers EXCEPT ![h] = Answer(called, 200, "", <<result>>)]
             /\ UNCHANGED <<analyses, next_row_id>>

\* the handler analyze from run_inference on: the optional save, the response
AnalyzeDetected(h, me, image, detected) ==
    LET called == [me EXCEPT !.validated = TRUE, !.detector_input = <<image>>,
                             !.detector_outcome = detected.outcome]
    IN  IF detected.outcome = "raised"
        THEN /\ handlers' = [handlers EXCEPT ![h] =
                                Answer(called, 500, "Internal Server Error", <<>>)]
             /\ UNCHANGED <<analyses, next_row_id>>
        ELSE LET result == InferencePayload(detected.boxes)
             IN  IF me.save
                 THEN LET row == Analysis(next_row_id, me.user[1].id,
                                          next_idx(analyses, me.user[1].id),
                                          me.filename, result.detections)
                      IN  /\ analyses' = analyses \cup {row}
                          /\ next_row_id' = next_row_id + 1
                          /\ handlers' = [handlers EXCEPT ![h] =
                                            Answer([called EXCEPT !.added = <<row.id>>],
                                                   200, "", <<result>>)]
                 ELSE /\ handlers' = [handlers EXCEPT ![h] =
                                        Answer(called, 200, "", <<result>>)]
                      /\ UNCHANGED <<analyses, next_row_id>>

\* the body of the handler analyze; it is a coroutine that awaits nothing after
\* file.read(), so it runs to its response without another handler in between
Analyze(h, box_lists) ==
    LET me == handlers[h]
    IN  /\ me.pc = "handler"
        /\ me.op = "analyze"
        /\ me.save => next_row_id <= MaxRows
        /\ IF ~IsImageContentType(me.content_type)
           THEN /\ handlers' = [handlers EXCEPT ![h] =
                                    Answer(me, 400, MsgContentType, <<>>)]
                /\ UNCHANGED <<analyses, next_row_id>>
           ELSE LET result == validate_dental_xray(me.file, me.filename)
                    img == pil_from_upload(me.file)
                IN  IF ~result.is_valid
                    THEN /\ handlers' = [handlers EXCEPT ![h] =
                                            Answer([me EXCEPT !.validated = TRUE],
                                                   400, result.msg, <<>>)]
                         /\ UNCHANGED <<analyses, next_row_id>>
                    ELSE IF img = <<>>
                    THEN /\ handlers' = [handlers EXCEPT ![h] =
                                            Answer([me EXCEPT !.validated = TRUE],
                                                   500, "Internal Server Error", <<>>)]
                         /\ UNCHANGED <<analyses, next_row_id>>
                    ELSE \E detected \in DetectorResults(box_lists) :
                            AnalyzeDetected(h, me, img[1], detected)
        /\ UNCHANGED early_vars
        /\ UNCHANGED <<store_vars, login_vars, cache_vars, repeat_vars>>

\* the rows, newest first
RECURSIVE NewestFirst(_)
NewestFirst(rows) ==
    IF rows = {}
    THEN <<>>
    ELSE LET newest == CHOOSE r \in rows : \A o \in rows : o.id <= r.id
         IN  <<newest>> \o NewestFirst(rows \ {newest})

\* variant: the history of every user
ListedRowsOfAll(rows, user_id) == rows

\* the query of list_analyses
ListedRows(rows, user_id) == {r \in rows : r.user_id = user_id}

\* an element of the list that list_analyses returns
ListedItem(r) ==
    [id |-> IF r.per_user_index # 0 THEN r.per_user_index ELSE r.id,
     analysis_id |-> r.id,
     per_user_index |-> r.per_user_index,
     image_filename |-> r.image_filename,
     total_detections |-> r.total_detections,
     caries |-> r.caries_count,
     retenido |-> r.diente_retenido_count,
     perdida |-> r.perdida_osea_count]

\* GET /analyses
ListAnalyses(h) ==
    LET me == handlers[h]
        rows == NewestFirst(ListedRows(analyses, me.user[1].id))
    IN  /\ me.pc = "handler"
        /\ me.op = "list"
        /\ handlers' = [handlers EXCEPT ![h] =
                            Answer(me, 200, "",
                                   <<[i \in 1..Len(rows) |-> ListedItem(rows[i])]>>)]
        /\ UNCHANGED <<analyses, next_row_id>>
        /\ UNCHANGED early_vars
        /\ UNCHANGED <<store_vars, login_vars, cache_vars, repeat_vars>>

\* variant: the row is looked up by its id alone
DeleteQueryById(rows, analysis_id, user_id) == {r \in rows : r.id = analysis_id}

\* the query of delete_analysis
DeleteQuery(rows, analysis_id, user_id) ==
    {r \in rows : r.id = analysis_id /\ r.user_id = user_id}

\* DELETE /analyses/{analysis_id}: the query, and the 404 when it finds nothing
DeleteAnalysisQuery(h) ==
    LET me == handlers[h]
        found == DeleteQuery(analyses, me.analysis_id, me.user[1].id)
    IN  /\ me.pc = "handler"
        /\ me.op = "delete"
        /\ handlers' = [handlers EXCEPT ![h] =
                            IF found = {}
                            THEN Answer(me, 404, "No encontrado", <<>>)
                            ELSE [me EXCEPT !.pc = "commit",
                                            !.found = <<CHOOSE r \in found : TRUE>>]]
        /\ UNCHANGED <<analyses, next_row_id>>
        /\ UNCHANGED early_vars
        /\ UNCHANGED <<store_vars, login_vars, cache_vars, repeat_vars>>

\* DELETE /analyses/{analysis_id}: db.delete(r), db.commit() and the response
DeleteAnalysisCommit(h) ==
    LET me == handlers[h]
    IN  /\ me.pc = "commit"
        /\ analyses' = analyses \ {me.found[1]}
        /\ handlers' = [handlers EXCEPT ![h] =
                            Answer(me, 200, "", <<[deleted |-> me.found[1].id]>>)]
        /\ UNCHANGED next_row_id
        /\ UNCHANGED early_vars
        /\ UNCHANGED <<store_vars, login_vars, cache_vars, repeat_vars>>

\* the response has been sent
Finish(h) ==
    /\ handlers[h].pc = "done"
    /\ handlers' = [handlers EXCEPT ![h] = IdleHandler]
    /\ UNCHANGED <<analyses, next_row_id>>
    /\ UNCHANGED early_vars
    /\ UNCHANGED <<store_vars, login_vars, cache_vars, repeat_vars>>

NoEarly ==
    /\ IdleRequest
    /\ x_center_norm = 0
    /\ y_center_norm = 0
    /\ fdi_number = 0
    /\ NoInference
    /\ NoInfoRequest

\* a radiograph, a colour photograph and a PDF under the name of an image
RadiographFile ==
    [bytes |-> ImageFile(Image(<<6, 2>>, <<Black, White, Gray128, Gray60>>)),
     name |-> <<"x", ".", "p", "n", "g">>]

PhotoFile ==
    [bytes |-> ImageFile(Image(<<6, 2>>, <<Red>>)), name |-> <<"x", ".", "j", "p", "g">>]

DisguisedPdfFile == [bytes |-> PdfFile, name |-> <<"x", ".", "p", "n", "g">>]

CariesBox == [xyxy |-> <<0, 0, 4, 4>>, conf |-> 90, cls |-> 0]

CariesBoxAgain == [xyxy |-> <<1, 1, 3, 3>>, conf |-> 50, cls |-> 0]

BoneLossBox == [xyxy |-> <<10, 2, 14, 6>>, conf |-> 50, cls |-> 2]

\* the requests of one client at a time
HistoryInputs ==
    [tokens |-> {NoToken, GarbageToken, Token(""), Token("ghost"),
                 Token("ana"), Token("bob")},
     files |-> {RadiographFile, PhotoFile, DisguisedPdfFile},
     content_types |-> {"image/png", "application/pdf"},
     saves |-> BOOLEAN]

HistoryBoxLists == {<<>>, <<CariesBox, BoneLossBox, CariesBoxAgain>>}

HistoryHandlers == {"h1"}

InitHistory ==
    /\ NoEarly
    /\ handlers = [h \in HistoryHandlers |-> IdleHandler]
    /\ analyses = {}
    /\ next_row_id = 1
    /\ NoStore /\ NoLogin /\ NoCache /\ NoRepeat

NextHistory ==
    \E h \in HistoryHandlers :
        \/ StartAnalyze(h, HistoryInputs)
        \/ StartListAnalyses(h, HistoryInputs)
        \/ StartDeleteAnalysis(h, HistoryInputs)
        \/ Authenticate(h)
        \/ Analyze(h, HistoryBoxLists)
        \/ ListAnalyses(h)
        \/ DeleteAnalysisQuery(h)
        \/ DeleteAnalysisCommit(h)
        \/ Finish(h)

SpecHistory == InitHistory /\ [][NextHistory]_vars

\* saves and deletions of two clients at once: each handler is a request in
\* flight; the dependencies and the handler delete_analysis run in pool threads
\* and interleave step by step, the body of analyze runs on the event loop
SharedInputs ==
    [tokens |-> {Token("ana"), Token("bob")},
     files |-> {RadiographFile},
     content_types |-> {"image/png"},
     saves |-> {TRUE}]

SharedBoxLists == {<<CariesBox>>}

SharedHandlers == {"h1", "h2"}

InitShared ==
    /\ NoEarly
    /\ handlers = [h \in SharedHandlers |-> IdleHandler]
    /\ analyses = {}
    /\ next_row_id = 1
    /\ NoStore /\ NoLogin /\ NoCache /\ NoRepeat

NextShared ==
    \E h \in SharedHandlers :
        \/ StartAnalyze(h, SharedInputs)
        \/ StartDeleteAnalysis(h, SharedInputs)
        \/ Authenticate(h)
        \/ Analyze(h, SharedBoxLists)
        \/ DeleteAnalysisQuery(h)
        \/ DeleteAnalysisCommit(h)
        \/ Finish(h)

SpecShared == InitShared /\ [][NextShared]_vars

(***************************************************************************)
(* Claims about the history                                                *)
(***************************************************************************)
Served(h) == handlers[h].pc = "done"

DetectorRaised(h) == handlers[h].detector_outcome = "raised"

\* C21: when the call of the detector raises inside run_inference, the request
\* ends with an error response (never with status 200 or a payload), and the
\* step of the handler in which it raises leaves the table "analyses" as it was.
C21_DetectorErrorPropagates ==
    /\ [](\A h \in DOMAIN handlers :
            DetectorRaised(h) =>
                /\ Served(h)
                /\ handlers[h].response[1].status = 500
                /\ handlers[h].body = <<>>
                /\ handlers[h].added = <<>>)
    /\ [][\A h \in DOMAIN handlers :
            (~DetectorRaised(h) /\ handlers'[h].detector_outcome = "raised")
                => analyses' = analyses]_vars

C21_Witness ==
    \E h \in DOMAIN handlers :
        /\ DetectorRaised(h)
        /\ handlers[h].save
        /\ handlers[h].detector_input # <<>>
        /\ analyses # {}

\* the bearer token is a token of this server whose subject is the address of
\* a row of "users"
DecodesToUser(token) ==
    /\ token.kind = "jwt"
    /\ \E u \in UserTable : u.email = token.sub

Unauthenticated(h) ==
    /\ handlers[h].op = "analyze"
    /\ ~DecodesToUser(handlers[h].token)

\* C22: a POST /analyze without a bearer token, or with one that does not decode
\* to the address of an existing user, never reaches the body of the handler: it
\* is answered 401 with no image validation, no detector call and no row added,
\* whatever the file, and no step of it changes the table "analyses".
C22_AuthBeforeEverything ==
    /\ [](\A h \in DOMAIN handlers :
            Unauthenticated(h) =>
                /\ handlers[h].pc \in {"auth", "done"}
                /\ Served(h) => handlers[h].response[1].status = 401
                /\ ~handlers[h].validated
                /\ handlers[h].detector_input = <<>>
                /\ handlers[h].body = <<>>
                /\ handlers[h].added = <<>>)
    /\ [][\A h \in DOMAIN handlers :
            (Unauthenticated(h) /\ handlers'[h] # handlers[h])
                => analyses' = analyses]_vars

C22_Witness ==
    \E h \in DOMAIN handlers :
        /\ Served(h)
        /\ handlers[h].op = "analyze"
        /\ handlers[h].token = Token("ghost")
        /\ handlers[h].file = RadiographFile.bytes
        /\ handlers[h].content_type = "image/png"
        /\ handlers[h].save
        /\ analyses # {}

(***************************************************************************)
(* Two invocations on the same input: app/image_validator.py,              *)
(* app/inference.py                                                        *)
(***************************************************************************)
\* what the calls of time.time() in run_inference measure, in milliseconds
FastTiming == [model_load_ms |-> 0, prediction_ms |-> 40, draw_ms |-> 2, total_ms |-> 43]

SlowTiming == [model_load_ms |-> 900, prediction_ms |-> 41, draw_ms |-> 2, total_ms |-> 945]

Timings == {FastTiming, SlowTiming}

\* payload["performance"]: without draw_ms when there are no boxes
performance(bs, timing) ==
    IF Len(bs) = 0
    THEN [total_ms |-> timing.total_ms, model_load_ms |-> timing.model_load_ms,
          prediction_ms |-> timing.prediction_ms]
    ELSE [total_ms |-> timing.total_ms, model_load_ms |-> timing.model_load_ms,
          prediction_ms |-> timing.prediction_ms, draw_ms |-> timing.draw_ms]

\* variant: the report ends with the measured total
run_inference_timed_report(image, bs, timing) ==
    [annotated |-> [image |-> image, drawn |-> detections(bs)],
     payload |-> [InferencePayload(bs) EXCEPT
                    !.report_text = @ \o <<Line("Total", <<timing.total_ms>>)>>]
                 @@ [performance |-> performance(bs, timing)]]

\* what run_inference returns when the detector returns bs: the drawn copy of
\* the image and the payload with its measured times
run_inference_returns(image, bs, timing) ==
    [annotated |-> [image |-> image, drawn |-> detections(bs)],
     payload |-> InferencePayload(bs) @@ [performance |-> performance(bs, timing)]]

\* one invocation of the three functions on the input
Invocation(timing) ==
    LET img == pil_from_upload(file)
    IN  [validation |-> validate_dental_xray(file, filename),
         fdi |-> calculate_fdi(x_center_norm, y_center_norm),
         inference |-> IF img = <<>>
                       THEN <<>>
                       ELSE <<run_inference_returns(img[1], boxes, timing)>>]

RepeatFilenames == {<<"x", ".", "p", "n", "g">>, <<"x", ".", "p", "d", "f">>}

RepeatBoxLists == {<<>>, <<CariesBox>>, <<BoneLossBox, CariesBox, CariesBoxAgain>>}

RepeatCoordinates == {<<0, 0>>, <<15, 8>>, <<16, 16>>, <<32, 31>>}

InitRepeat ==
    /\ pc = "idle"
    /\ endpoint = "none"
    /\ filename \in RepeatFilenames
    /\ file \in Files
    /\ content_type = "None"
    /\ url_status = 0
    /\ user = "none"
    /\ admission = <<>>
    /\ detector_input = <<>>
    /\ detector_outcome = "none"
    /\ response = <<>>
    /\ \E c \in RepeatCoordinates : x_center_norm = c[1] /\ y_center_norm = c[2]
    /\ fdi_number = 0
    /\ boxes \in RepeatBoxLists
    /\ payload = <<>>
    /\ NoInfoRequest
    /\ NoHistory /\ NoStore /\ NoLogin /\ NoCache
    /\ first_run = <<>>
    /\ second_run = <<>>

FirstInvocation ==
    /\ first_run = <<>>
    /\ \E timing \in Timings : first_run' = <<Invocation(timing)>>
    /\ UNCHANGED second_run
    /\ UNCHANGED early_vars
    /\ UNCHANGED <<history_vars, store_vars, login_vars, cache_vars>>

SecondInvocation ==
    /\ first_run # <<>>
    /\ second_run = <<>>
    /\ \E timing \in Timings : second_run' = <<Invocation(timing)>>
    /\ UNCHANGED first_run
    /\ UNCHANGED early_vars
    /\ UNCHANGED <<history_vars, store_vars, login_vars, cache_vars>>

NextRepeat == FirstInvocation \/ SecondInvocation

SpecRepeat == InitRepeat /\ [][NextRepeat]_vars

(***************************************************************************)
(* Claims about repeated invocations                                       *)
(***************************************************************************)
Repeated == second_run # <<>>

WithoutPerformance(p) == [k \in DOMAIN p \ {"performance"} |-> p[k]]

Ascending(list) == \A i, j \in 1..Len(list) : i < j => list[i] < list[j]

Elements(list) == {list[i] : i \in 1..Len(list)}

\* the teeth of the boxes of class cid, in the order of the boxes
TeethOfBoxes(cid) ==
    LET of_class == SelectSeq(boxes, LAMBDA b : b.cls = cid)
    IN  [i \in 1..Len(of_class) |-> BoxFdi(of_class[i])]

FirstIndex(list, v) == CHOOSE i \in 1..Len(list) : list[i] = v /\ \A j \in 1..(i - 1) : list[j] # v

\* kept lists the distinct values of list in the order of their first occurrence
FirstOccurrenceOrder(kept, list) ==
    /\ Elements(kept) = Elements(list)
    /\ \A i, j \in 1..Len(kept) :
            i < j => FirstIndex(list, kept[i]) < FirstIndex(list, kept[j])

\* the lines of the report that list the teeth of class cid: the line after the
\* count line of the class, and its interpretation line
TeethLines(report, cid) ==
    {i \in 1..Len(report) :
        \/ report[i].text = TextInterpretation[cid]
        \/ i > 1 /\ report[i - 1].text = CLASS_NAMES[cid]}

\* C24: in the report of a run with boxes, for every class with detections
\* there are a count line followed by a line of its teeth and an interpretation
\* line, both listing the teeth of teeth_fdi[class] in ascending numeric order,
\* and for a class without detections there is none of them; teeth_fdi[class]
\* itself keeps the teeth in the order of their first occurrence among the boxes.
C24_ReportSortedMapAsFound ==
    (Returned /\ Len(boxes) > 0) =>
        \A cid \in ClassIds :
            LET report == Result.report_text
                teeth == Result.teeth_fdi[CLASS_NAMES[cid]]
                found == TeethOfBoxes(cid)
            IN  /\ FirstOccurrenceOrder(teeth, found)
                /\ IF Len(found) > 0
                   THEN /\ Cardinality(TeethLines(report, cid)) = 2
                        /\ \E i \in 1..Len(report) : report[i].text = TextInterpretation[cid]
                        /\ \A i \in TeethLines(report, cid) :
                                /\ Ascending(report[i].args)
                                /\ Elements(report[i].args) = Elements(teeth)
                                /\ Len(report[i].args) = Len(teeth)
                   ELSE /\ TeethLines(report, cid) = {}
                        /\ \A i \in 1..Len(report) : report[i].text # CLASS_NAMES[cid]

C24_Witness ==
    /\ Returned
    /\ Len(boxes) = 3
    /\ Len(Result.teeth_fdi["Caries"]) = 2
    /\ ~Ascending(Result.teeth_fdi["Caries"])
    /\ Result.teeth_fdi["Perdida_Osea"] = <<>>
    /\ \E i \in 1..Len(Result.report_text) :
            /\ Result.report_text[i].text = TextInterpretation[0]
            /\ Result.report_text[i].args # Result.teeth_fdi["Caries"]

(***************************************************************************)
(* The model store: app/model_store.py, app/main.py                        *)
(***************************************************************************)
\* how many times one caller calls get_model
MaxCalls == 2

\* who calls get_model: the startup hook, the event loop (the coroutines analyze
\* and analyze_public) and the threads of the pool (analyze_url)
StoreCallers == {"startup", "loop", "t1", "t2"}

IdleCaller == [pc |-> "idle", calls |-> 0, new |-> 0, results |-> {}]

\* variant: requests are served while the startup hook is still running
ServingBeforeStartup == TRUE

\* the server accepts requests once the startup hook has returned
Serving == callers["startup"].pc = "idle" /\ callers["startup"].calls = 1

\* startup_event, or run_inference in a handler, calls get_model
CallGetModel(c) ==
    /\ callers[c].pc = "idle"
    /\ callers[c].calls < MaxCalls
    /\ IF c = "startup" THEN callers[c].calls = 0 ELSE Serving
    /\ callers' = [callers EXCEPT ![c].pc = "check"]
    /\ UNCHANGED <<model_instance, yolo_calls>>
    /\ UNCHANGED early_vars
    /\ UNCHANGED <<history_vars, login_vars, cache_vars, repeat_vars>>

\* if _model is None:
CheckModel(c) ==
    /\ callers[c].pc = "check"
    /\ callers' = [callers EXCEPT ![c].pc =
                        IF model_instance = 0 THEN "construct" ELSE "return"]
    /\ UNCHANGED <<model_instance, yolo_calls>>
    /\ UNCHANGED early_vars
    /\ UNCHANGED <<history_vars, login_vars, cache_vars, repeat_vars>>

\* _download_model_if_needed() and YOLO(_model_path): a new instance, or an
\* exception that leaves get_model
ConstructModel(c) ==
    /\ callers[c].pc = "construct"
    /\ yolo_calls' = yolo_calls + 1
    /\ \E constructed \in BOOLEAN :
            callers' = [callers EXCEPT ![c] =
                            IF constructed
                            THEN [@ EXCEPT !.pc = "assign", !.new = yolo_calls + 1]
                            ELSE [@ EXCEPT !.pc = "failed"]]
    /\ UNCHANGED model_instance
    /\ UNCHANGED early_vars
    /\ UNCHANGED <<history_vars, login_vars, cache_vars, repeat_vars>>

\* _model = YOLO(_model_path)
AssignModel(c) ==
    /\ callers[c].pc = "assign"
    /\ model_instance' = callers[c].new
    /\ callers' = [callers EXCEPT ![c].pc = "return"]
    /\ UNCHANGED yolo_calls
    /\ UNCHANGED early_vars
    /\ UNCHANGED <<history_vars, login_vars, cache_vars, repeat_vars>>

\* return _model
ReturnModel(c) ==
    /\ callers[c].pc = "return"
    /\ callers' = [callers EXCEPT ![c] =
                        [@ EXCEPT !.pc = "idle", !.calls = @ + 1,
                                  !.results = @ \cup {model_instance}]]
    /\ UNCHANGED <<model_instance, yolo_calls>>
    /\ UNCHANGED early_vars
    /\ UNCHANGED <<history_vars, login_vars, cache_vars, repeat_vars>>

InitStore ==
    /\ NoEarly
    /\ model_instance = 0
    /\ yolo_calls = 0
    /\ callers = [c \in StoreCallers |-> IdleCaller]
    /\ NoHistory /\ NoLogin /\ NoCache /\ NoRepeat

NextStore ==
    \E c \in StoreCallers :
        \/ CallGetModel(c)
        \/ CheckModel(c)
        \/ ConstructModel(c)
        \/ AssignModel(c)
        \/ ReturnModel(c)

SpecStore == InitStore /\ [][NextStore]_vars

(***************************************************************************)
(* Claims about the model store                                            *)
(***************************************************************************)
ReturnedInstances == UNION {callers[c].results : c \in DOMAIN callers}

\* C25: whatever the calls of get_model by the startup hook, the event loop
\* and the threads of the pool, and however they interleave, the YOLO
\* constructor runs at most once, every call returns the one instance that
\* _model holds, and once _model is set no step assigns to it again.
C25_ModelLoadedOnce ==
    /\ [](/\ yolo_calls <= 1
          /\ ReturnedInstances \subseteq {model_instance}
          /\ 0 \notin ReturnedInstances)
    /\ [][model_instance # 0 => model_instance' = model_instance]_vars

C25_Witness ==
    /\ yolo_calls = 1
    /\ callers["t1"].pc = "return"
    /\ callers["t2"].pc = "check"
    /\ callers["loop"].results = {1}
    /\ callers["t1"].results = {1}
    /\ callers["startup"].results = {1}

(***************************************************************************)
(* Claims about the stored analyses                                        *)
(***************************************************************************)
IndexesOf(rows, user_id) == {r.per_user_index : r \in UserRows(rows, user_id)}

GreatestIndex(rows, user_id) ==
    IF IndexesOf(rows, user_id) = {}
    THEN 0
    ELSE CHOOSE m \in IndexesOf(rows, user_id) : \A i \in IndexesOf(rows, user_id) : i <= m

\* C26: the rows of one user always carry pairwise distinct per_user_index
\* values, through saves and deletions and with two requests in flight at once;
\* a row that is added carries an index greater than every index stored for its
\* user, namely the greatest of them plus one (1 when the user has no row,
\* whatever the other users have stored), and the rows of the others stay.
C26_PerUserIndexDistinct ==
    /\ [](\A r1, r2 \in analyses :
            (r1.user_id = r2.user_id /\ r1.id # r2.id)
                => r1.per_user_index # r2.per_user_index)
    /\ [][\A r \in analyses' \ analyses :
            /\ \A o \in UserRows(analyses, r.user_id) : r.per_user_index > o.per_user_index
            /\ r.per_user_index = GreatestIndex(analyses, r.user_id) + 1
            /\ \A o \in analyses : o.user_id # r.user_id => o \in analyses']_vars

\* two requests of one user that both came in before either saved have both
\* saved, after a deletion, and the other user has a row of its own
C26_Witness ==
    /\ handlers["h1"].op = "analyze" /\ handlers["h2"].op = "analyze"
    /\ handlers["h1"].added # <<>> /\ handlers["h2"].added # <<>>
    /\ handlers["h1"].arrived = handlers["h2"].arrived
    /\ handlers["h1"].user = handlers["h2"].user
    /\ Cardinality(UserRows(analyses, handlers["h1"].user[1].id)) = 2
    /\ \E r \in analyses : r.user_id # handlers["h1"].user[1].id /\ r.per_user_index = 1

\* handler h ends the body of POST /analyze in this step
AnalyzeAnswers(h) ==
    /\ handlers[h].op = "analyze"
    /\ handlers[h].pc = "handler"
    /\ handlers'[h].pc = "done"

\* C27: the body of POST /analyze that answers 200 with save=true adds exactly
\* one row, owned by the requester, whose total_detections is the number of
\* detections of the response and the sum of its three class counts; one that
\* answers 200 with save=false, rejects the image or fails adds none; no step of
\* a POST /analyze changes or removes a stored row.
C27_SaveAddsOneRow ==
    [][\A h \in DOMAIN handlers :
        /\ AnalyzeAnswers(h) =>
            IF handlers'[h].response[1].status = 200 /\ handlers[h].save
            THEN \E r \in analyses' \ analyses :
                    /\ analyses' = analyses \cup {r}
                    /\ r.id \notin {o.id : o \in analyses}
                    /\ handlers'[h].added = <<r.id>>
                    /\ r.user_id = handlers[h].user[1].id
                    /\ r.total_detections = Len(handlers'[h].body[1].detections)
                    /\ r.total_detections
                            = r.caries_count + r.diente_retenido_count + r.perdida_osea_count
            ELSE analyses' = analyses
        /\ (handlers[h].op = "analyze" \/ handlers'[h].op = "analyze")
                => analyses \subseteq analyses']_vars

C27_Witness ==
    \E h \in DOMAIN handlers, r \in analyses :
        /\ Served(h)
        /\ handlers[h].added = <<r.id>>
        /\ r.total_detections = 3
        /\ r.caries_count = 2
        /\ r.perdida_osea_count = 1
        /\ \E o \in analyses : o.user_id # r.user_id
        /\ \E o \in analyses : o.user_id = r.user_id /\ o.id # r.id /\ o.total_detections = 0

\* handler h ends GET /analyses in this step
ListAnswers(h) ==
    /\ handlers[h].op = "list"
    /\ handlers[h].pc = "handler"
    /\ handlers'[h].pc = "done"

\* handler h runs the query of DELETE /analyses/{id} in this step
DeleteLooksUp(h) ==
    /\ handlers[h].op = "delete"
    /\ handlers[h].pc = "handler"
    /\ handlers'[h].pc # "handler"

OwnRow(h, r) == r.user_id = handlers[h].user[1].id

\* C28: GET /analyses returns an item only for rows of the authenticated user;
\* a row leaves the table only through a DELETE of its id by its owner; a
\* DELETE of an id that is missing or belongs to another user answers 404 and
\* no row changes.
C28_HistoryIsPerUser ==
    [][/\ \A h \in DOMAIN handlers :
            /\ ListAnswers(h) =>
                LET items == handlers'[h].body[1]
                IN  /\ handlers'[h].response[1].status = 200
                    /\ \A i \in 1..Len(items) :
                            \E r \in analyses : /\ r.id = items[i].analysis_id
                                                /\ OwnRow(h, r)
                                                /\ items[i] = ListedItem(r)
            /\ (DeleteLooksUp(h)
                    /\ ~\E r \in analyses : r.id = handlers[h].analysis_id /\ OwnRow(h, r))
                => /\ handlers'[h].pc = "done"
                   /\ handlers'[h].response = <<Response(404, "No encontrado")>>
                   /\ analyses' = analyses
       /\ \A r \in analyses \ analyses' :
            \E h \in DOMAIN handlers :
                /\ handlers[h].op = "delete"
                /\ handlers[h].analysis_id = r.id
                /\ OwnRow(h, r)
                /\ handlers'[h].response[1].status = 200]_vars

\* a DELETE of the row of another user has been answered 404 and the row is
\* still there
C28_Witness ==
    \E h \in DOMAIN handlers, r \in analyses :
        /\ Served(h)
        /\ handlers[h].op = "delete"
        /\ handlers[h].analysis_id = r.id
        /\ handlers[h].user # <<>>
        /\ ~OwnRow(h, r)
        /\ handlers[h].response[1].status = 404
        /\ Cardinality(analyses) = 3

(***************************************************************************)
(* The login: app/auth.py, app/email_validator.py                          *)
(***************************************************************************)
LowerLetters ==
    {"a", "b", "c", "d", "e", "f", "g", "h", "i", "j", "k", "l", "m",
     "n", "o", "p", "q", "r", "s", "t", "u", "v", "w", "x", "y", "z"}

Digits == {"0", "1", "2", "3", "4", "5", "6", "7", "8", "9"}

\* str.strip()
RECURSIVE Strip(_)
Strip(s) ==
    IF s = <<>> THEN s
    ELSE IF Head(s) = " " THEN Strip(Tail(s))
    ELSE IF s[Len(s)] = " " THEN Strip(SubSeq(s, 1, Len(s) - 1))
    ELSE s

Positions(s, ch) == {i \in 1..Len(s) : s[i] = ch}

HasDoubleDot(s) == \E i \in 1..(Len(s) - 1) : s[i] = "." /\ s[i + 1] = "."

AllIn(s, chars) == \A i \in 1..Len(s) : s[i] \in chars

\* re.match(r'^[^\s@]+@[^\s@]+\.[^\s@]+$', email)
MatchesBasicPattern(s) ==
    /\ Positions(s, " ") = {}
    /\ Cardinality(Positions(s, "@")) = 1
    /\ LET at == CHOOSE i \in Positions(s, "@") : TRUE
       IN  /\ at > 1
           /\ \E dot \in Positions(s, ".") : at + 1 < dot /\ dot < Len(s)

\* domain.split('.')
RECURSIVE SplitAtDots(_)
SplitAtDots(s) ==
    IF Positions(s, ".") = {}
    THEN <<s>>
    ELSE LET dot == CHOOSE i \in Positions(s, ".") : \A j \in Positions(s, ".") : i <= j
         IN  <<SubSeq(s, 1, dot - 1)>> \o SplitAtDots(SubSeq(s, dot + 1, Len(s)))

Invalid(msg) == [ok |-> FALSE, msg |-> msg]

\* the checks of one part of the domain
DomainPartMessage(part) ==
    IF part = <<>> THEN <<"El dominio contiene partes vacias">>
    ELSE IF ~AllIn(part, LowerLetters \cup Digits \cup {"-"})
    THEN <<"Parte del dominio contiene caracteres invalidos">>
    ELSE IF part[1] = "-" \/ part[Len(part)] = "-"
    THEN <<"Parte del dominio no puede empezar o terminar con guion">>
    ELSE <<>>

\* for part in parts: the message of the first part that fails
RECURSIVE DomainPartsMessage(_)
DomainPartsMessage(parts) ==
    IF parts = <<>> THEN <<>>
    ELSE IF DomainPartMessage(Head(parts)) # <<>> THEN DomainPartMessage(Head(parts))
    ELSE DomainPartsMessage(Tail(parts))

validate_email(raw) ==
    LET email == StrLower(Strip(raw))
    IN  IF raw = <<>> THEN Invalid("El correo es requerido")
        ELSE IF ~MatchesBasicPattern(email) THEN Invalid("Formato de correo invalido")
        ELSE
        LET at == CHOOSE i \in Positions(email, "@") : TRUE
            name == SubSeq(email, 1, at - 1)
            domain == SubSeq(email, at + 1, Len(email))
            parts == SplitAtDots(domain)
            extension == parts[Len(parts)]
        IN  IF name = <<>> THEN Invalid("La parte del usuario no puede estar vacia")
            ELSE IF HasDoubleDot(name)
            THEN Invalid("El correo no puede contener puntos consecutivos (..)")
            ELSE IF name[1] = "." THEN Invalid("El correo no puede empezar con un punto")
            ELSE IF name[Len(name)] = "."
            THEN Invalid("El correo no puede terminar con un punto antes del @")
            ELSE IF ~\E i \in 1..Len(name) : name[i] \in LowerLetters \cup Digits
            THEN Invalid("El correo debe contener al menos una letra o numero")
            ELSE IF AllIn(name, {"."})
            THEN Invalid("El correo no puede consistir solo de puntos")
            ELSE IF ~AllIn(name, LowerLetters \cup Digits \cup {".", "_", "-"})
            THEN Invalid("El usuario contiene caracteres no permitidos")
            ELSE IF domain = <<>> THEN Invalid("El dominio no puede estar vacio")
            ELSE IF Positions(domain, ".") = {}
            THEN Invalid("El dominio debe tener una extension valida")
            ELSE IF HasDoubleDot(domain)
            THEN Invalid("El dominio no puede contener puntos consecutivos")
            ELSE IF domain[1] = "." \/ domain[Len(domain)] = "."
            THEN Invalid("El dominio no puede empezar o terminar con un punto")
            ELSE IF Len(parts) < 2
            THEN Invalid("El dominio debe tener al menos un nombre y una extension")
            ELSE IF DomainPartsMessage(parts) # <<>>
            THEN Invalid(DomainPartsMessage(parts)[1])
            ELSE IF Len(extension) < 2
            THEN Invalid("La extension del dominio debe tener al menos 2 caracteres")
            ELSE IF ~AllIn(extension, LowerLetters)
            THEN Invalid("La extension del dominio solo puede contener letras")
            ELSE IF Len(email) > 320 THEN Invalid("El correo es demasiado largo")
            ELSE [ok |-> TRUE, msg |-> "None"]

\* pwd_ctx.hash(p); a stored value that is not a hash makes pwd_ctx.verify raise
PasswordHash(p) == [readable |-> TRUE, of |-> p]

CorruptHash == [readable |-> FALSE, of |-> ""]

\* pwd_ctx.verify(p, h), False when it raises
verify_password(p, h) == h.readable /\ h.of = p

AnaEmail == <<"a", "n", "a", "@", "x", ".", "c", "o">>

BobEmail == <<"b", ".", "o", "b", "@", "m", "-", "x", ".", "c", "o", "m">>

EvaEmail == <<"e", "v", "a", "@", "x", ".", "c", "o">>

\* table "users": two accounts, one with an unreadable hash, one stored with an
\* address that validate_email does not accept
LoginUsers ==
    {[email |-> AnaEmail, password_hash |-> PasswordHash("secret")],
     [email |-> BobEmail, password_hash |-> PasswordHash("other")],
     [email |-> EvaEmail, password_hash |-> CorruptHash],
     [email |-> <<".", "z", "@", "x", ".", "c", "o">>, password_hash |-> PasswordHash("secret")]}

MsgBadLogin == "Correo o contrasena incorrectos"

LoginResponse(status, detail, token) == [status |-> status, detail |-> detail, token |-> token]

\* variant: an address without account is answered as not found
login_revealing(form) ==
    LET normalized_email == StrLower(Strip(form.username))
        found == {u \in LoginUsers : u.email = normalized_email}
    IN  IF ~validate_email(normalized_email).ok
        THEN LoginResponse(401, MsgBadLogin, <<>>)
        ELSE IF found = {}
        THEN LoginResponse(404, "Usuario no encontrado", <<>>)
        ELSE LET account == CHOOSE u \in found : TRUE
             IN  IF ~verify_password(form.password, account.password_hash)
                 THEN LoginResponse(401, MsgBadLogin, <<>>)
                 ELSE LoginResponse(200, "", <<Token(account.email)>>)

\* POST /auth/login
login(form) ==
    LET normalized_email == StrLower(Strip(form.username))
        found == {u \in LoginUsers : u.email = normalized_email}
    IN  IF ~validate_email(normalized_email).ok
        THEN LoginResponse(401, MsgBadLogin, <<>>)
        ELSE IF found = {}
        THEN LoginResponse(401, MsgBadLogin, <<>>)
        ELSE LET account == CHOOSE u \in found : TRUE
             IN  IF ~verify_password(form.password, account.password_hash)
                 THEN LoginResponse(401, MsgBadLogin, <<>>)
                 ELSE LoginResponse(200, "", <<Token(account.email)>>)

LoginUsernames ==
    {AnaEmail, BobEmail, EvaEmail,
     <<" ", "A", "n", "a", "@", "X", ".", "C", "O", " ">>,
     <<".", "z", "@", "x", ".", "c", "o">>,
     <<"z", "o", "e", "@", "x", ".", "c", "o">>,
     <<"a", "n", "a">>,
     <<"a", "n", "a", "@", "x">>,
     <<"@", "x", ".", "c", "o">>,
     <<"a", " ", "a", "@", "x", ".", "c", "o">>,
     <<"a", "@", "b", "@", "x", ".", "c", "o">>,
     <<"a", ".", ".", "a", "@", "x", ".", "c", "o">>,
     <<"a", ".", "@", "x", ".", "c", "o">>,
     <<"_", "-", "@", "x", ".", "c", "o">>,
     <<".", "@", "x", ".", "c", "o">>,
     <<"a", "!", "a", "@", "x", ".", "c", "o">>,
     <<"a", "n", "a", "@", "x", ".", ".", "c", "o">>,
     <<"a", "n", "a", "@", ".", "x", ".", "c", "o">>,
     <<"a", "n", "a", "@", "x", ".", "c", "o", ".">>,
     <<"a", "n", "a", "@", "x", "_", "y", ".", "c", "o">>,
     <<"a", "n", "a", "@", "-", "x", ".", "c", "o">>,
     <<"a", "n", "a", "@", "x", ".", "c">>,
     <<"a", "n", "a", "@", "x", ".", "c", "0">>}

LoginPasswords == {"secret", "other", "wrong"}

InitLogin ==
    /\ NoEarly
    /\ NoHistory /\ NoStore /\ NoCache /\ NoRepeat
    /\ login_request \in [username : LoginUsernames, password : LoginPasswords]
    /\ login_response = <<>>

Login ==
    /\ login_response = <<>>
    /\ login_response' = <<login(login_request)>>
    /\ UNCHANGED login_request
    /\ UNCHANGED early_vars
    /\ UNCHANGED <<history_vars, store_vars, cache_vars, repeat_vars>>

NextLogin == Login

SpecLogin == InitLogin /\ [][NextLogin]_vars

(***************************************************************************)
(* Claims about the login                                                  *)
(***************************************************************************)
LoggedIn == login_response # <<>>

TypedEmail == StrLower(Strip(login_request.username))

AccountsOfTyped == {u \in LoginUsers : u.email = TypedEmail}

InvalidSyntax == ~validate_email(TypedEmail).ok

NoAccount == AccountsOfTyped = {}

WrongPassword ==
    \E u \in AccountsOfTyped : ~(u.password_hash.readable /\ u.password_hash.of = login_request.password)

\* C29: a login whose address is not valid, or has no account, or whose
\* password does not verify gets the same answer in the three cases, status 401
\* with the one detail and no token; a token is issued only for the address of
\* an account, with the password of that account.
C29_LoginFailuresAlike ==
    LoggedIn =>
        /\ (InvalidSyntax \/ NoAccount \/ WrongPassword)
                => login_response[1] = LoginResponse(401, MsgBadLogin, <<>>)
        /\ login_response[1].token # <<>> =>
                /\ login_response[1].status = 200
                /\ \E u \in LoginUsers :
                        /\ u.email = TypedEmail
                        /\ u.password_hash = PasswordHash(login_request.password)
                        /\ login_response[1].token = <<Token(u.email)>>

C29_Witness ==
    /\ LoggedIn
    /\ ~InvalidSyntax
    /\ ~NoAccount
    /\ WrongPassword
    /\ login_response[1].status = 401

(***************************************************************************)
(* The result cache: app/cache.py                                          *)
(***************************************************************************)
\* settings.CACHE_TTL_SECONDS, read from the environment
CACHE_TTL_SECONDS == 3

\* how far time.time() advances
MaxClock == 7

\* set cleans up when the cache holds more entries than this
CleanupThreshold == 100

\* the images that are looked up and stored, by their hash, and the hashes of
\* the other images that fill the cache up to one entry below the threshold
TrackedImages == {1, 2}

FillerImages == 3..(CleanupThreshold + 1)

CachedResults == {"r1", "r2"}

Entry(result, timestamp) == [result |-> result, timestamp |-> timestamp]

\* the dict without the keys in gone
Without(dict, gone) == [k \in DOMAIN dict \ gone |-> dict[k]]

\* the dict with dict[key] = value
With(dict, key, value) == [k \in DOMAIN dict \cup {key} |-> IF k = key THEN value ELSE dict[k]]

\* variant: an entry is served up to and including the age ttl
get_until_ttl(entries, enabled, now, img_hash) ==
    IF ~enabled
    THEN [result |-> <<>>, cache |-> entries]
    ELSE IF img_hash \in DOMAIN entries
    THEN IF now - entries[img_hash].timestamp <= CACHE_TTL_SECONDS
         THEN [result |-> <<entries[img_hash].result>>, cache |-> entries]
         ELSE [result |-> <<>>, cache |-> Without(entries, {img_hash})]
    ELSE [result |-> <<>>, cache |-> entries]

\* ResultCache.get: what it returns (<<>> = None) and the cache it leaves
get(entries, enabled, now, img_hash) ==
    IF ~enabled
    THEN [result |-> <<>>, cache |-> entries]
    ELSE IF img_hash \in DOMAIN entries
    THEN IF now - entries[img_hash].timestamp < CACHE_TTL_SECONDS
         THEN [result |-> <<entries[img_hash].result>>, cache |-> entries]
         ELSE [result |-> <<>>, cache |-> Without(entries, {img_hash})]
    ELSE [result |-> <<>>, cache |-> entries]

\* ResultCache._cleanup_old_entries
cleanup_old_entries(entries, now) ==
    Without(entries, {k \in DOMAIN entries : now - entries[k].timestamp > CACHE_TTL_SECONDS})

\* ResultCache.set: the cache it leaves
set(entries, enabled, now, img_hash, result) ==
    IF ~enabled
    THEN entries
    ELSE LET stored == With(entries, img_hash, Entry(result, now))
         IN  IF Cardinality(DOMAIN stored) > CleanupThreshold
             THEN cleanup_old_entries(stored, now)
             ELSE stored

\* the cache is new, or it is enabled and holds the other images, stored at time 0
InitCache ==
    /\ NoEarly
    /\ NoHistory /\ NoStore /\ NoLogin /\ NoRepeat
    /\ cache_enabled \in BOOLEAN
    /\ \/ cache = <<>>
       \/ cache_enabled /\ cache = [k \in FillerImages |-> Entry("r1", 0)]
    /\ clock = 0
    /\ cache_reply = <<>>
    /\ last_set = <<>>

CacheGet ==
    \E img_hash \in TrackedImages :
        LET got == get(cache, cache_enabled, clock, img_hash)
        IN  /\ cache' = got.cache
            /\ cache_reply' = <<[img_hash |-> img_hash, result |-> got.result]>>
            /\ UNCHANGED <<clock, cache_enabled, last_set>>
            /\ UNCHANGED early_vars
            /\ UNCHANGED <<history_vars, store_vars, login_vars, repeat_vars>>

CacheSet ==
    \E img_hash \in TrackedImages, result \in CachedResults :
        /\ cache' = set(cache, cache_enabled, clock, img_hash, result)
        /\ last_set' = With(last_set, img_hash, Entry(result, clock))
        /\ cache_reply' = <<>>
        /\ UNCHANGED <<clock, cache_enabled>>
        /\ UNCHANGED early_vars
        /\ UNCHANGED <<history_vars, store_vars, login_vars, repeat_vars>>

CacheClear ==
    /\ cache' = <<>>
    /\ cache_reply' = <<>>
    /\ UNCHANGED <<clock, cache_enabled, last_set>>
    /\ UNCHANGED early_vars
    /\ UNCHANGED <<history_vars, store_vars, login_vars, repeat_vars>>

\* time passes
Tick ==
    /\ clock < MaxClock
    /\ clock' = clock + 1
    /\ cache_reply' = <<>>
    /\ UNCHANGED <<cache, cache_enabled, last_set>>
    /\ UNCHANGED early_vars
    /\ UNCHANGED <<history_vars, store_vars, login_vars, repeat_vars>>

NextCache == CacheGet \/ CacheSet \/ CacheClear \/ Tick

SpecCache == InitCache /\ [][NextCache]_vars

(***************************************************************************)
(* Claims about the result cache                                           *)
(***************************************************************************)
Got == cache_reply # <<>>

Hit == Got /\ cache_reply[1].result # <<>>

\* C30: a get that has just returned a result did so with the cache enabled,
\* less than ttl seconds after the most recent set of that image, and returned
\* the result of that set; after a get the cache holds no expired entry of the
\* image; with the cache disabled every get returns None and the cache stays
\* as it is through every set.
C30_NoExpiredResult ==
    /\ [](/\ Hit =>
                LET img_hash == cache_reply[1].img_hash
                IN  /\ cache_enabled
                    /\ img_hash \in DOMAIN last_set
                    /\ clock - last_set[img_hash].timestamp < CACHE_TTL_SECONDS
                    /\ cache_reply[1].result = <<last_set[img_hash].result>>
          /\ Got =>
                LET img_hash == cache_reply[1].img_hash
                IN  img_hash \in DOMAIN cache
                        => clock - cache[img_hash].timestamp < CACHE_TTL_SECONDS
          /\ (Got /\ ~cache_enabled) => cache_reply[1].result = <<>>)
    /\ [][~cache_enabled => cache' = cache]_vars

\* a get has just found the entry of an image at the age ttl and removed it,
\* while the entry of the other image is still served
C30_Witness ==
    /\ Got
    /\ ~Hit
    /\ cache_enabled
    /\ cache_reply[1].img_hash = 1
    /\ 1 \in DOMAIN last_set
    /\ clock - last_set[1].timestamp = CACHE_TTL_SECONDS
    /\ 1 \notin DOMAIN cache
    /\ 2 \in DOMAIN cache

====
